---------------------------- MODULE Spec2Model ----------------------------
(***************************************************************************)
(* LogoCode agent workflow: the AgentService phase machine                 *)
(* (plan -> diff -> apply), the DiffEngine session it stores and the       *)
(* ApplyService that commits accepted file patches as one WorkspaceEdit.   *)
(*                                                                         *)
(* Async methods are modelled as activations that advance one await at a   *)
(* time: the code between two awaits is one atomic step (JavaScript runs   *)
(* it to completion), and every await is a point where the activation is   *)
(* suspended.  The collaborators of the vscode API (openTextDocument,      *)
(* applyEdit, save) and the graph-data callback are the environment: each  *)
(* of their outcomes is a nondeterministic choice.                         *)
(*                                                                         *)
(* The graph side is modelled beside it: TypeScriptAnalyzer turns the      *)
(* workspace's source files into analysis facts, and DependencyExtractor   *)
(* builds the node and edge maps of a snapshot from them.                  *)
(***************************************************************************)
EXTENDS Integers, Sequences, FiniteSets, TLC

VARIABLES
    phase,       \* AgentService._phase
    plan,        \* AgentService._plan (Undefined or an AgentPlan)
    diffResult,  \* AgentService._diffResult (Undefined or a DiffResult)
    content,     \* text of each workspace document, as a sequence of lines
    dirty,       \* TextDocument.isDirty of each workspace document
    gd,          \* activation of generateDiff (suspended at an await, or idle)
    ap,          \* activation of applyPatches / applyChanges (or idle)
    returned,    \* what the call that settled in the last step resolved with
    message,     \* last text surfaced to the user (onMessage / showErrorMessage)
    budget,      \* how many more calls the caller may issue while a call is suspended
    held,        \* session reference a collaborator keeps (DiffPanel._diffResult)
    workspace,   \* the source files findFiles reports, with what reading and parsing them gives
    analysis,    \* the AnalysisResult last handed to extractGraphData
    nodeMap,     \* DependencyExtractor.nodeMap, entries in insertion order
    edgeMap,     \* DependencyExtractor.edgeMap, entries in insertion order
    builds,      \* calls of extractGraphData made on the one DependencyExtractor
    search       \* SemanticSearchService._available, and the calls made to its text fallback

\* The analyzer and graph-builder side, which no AgentService call touches.
graphVars == <<workspace, analysis, nodeMap, edgeMap, builds>>

vars == <<phase, plan, diffResult, content, dirty, gd, ap, returned, message, budget, held,
          workspace, analysis, nodeMap, edgeMap, builds, search>>

----------------------------------------------------------------------------
(* Bounds and universes *)

\* Workspace files the model knows.
Paths == {"a.ts", "b.ts"}

\* Longest document, in lines, for which a new diff is still requested.
MaxLines == 1

\* Calls that may be issued while another call is suspended (SpecOverlap).
MaxOverlapped == 1

\* Longest context list handed to generatePlan.
MaxContext == 2

Undefined == [kind |-> "undefined"]

\* `return this._plan` and `return this._diffResult` hand out the object the
\* field holds at that moment, not a copy.
ThisPlan == [kind |-> "reference", field |-> "_plan"]

ThisDiffResult == [kind |-> "reference", field |-> "_diffResult"]

\* No call settled in the step.
NoReturn == [kind |-> "none"]

Marker == "// [LogoCode] Modified by agent"

Phases == {"idle", "planning", "diffing", "reviewing", "applying"}

\* Sequences over S of length at most n.
SeqUpTo(S, n) == UNION {[1..k -> S] : k \in 0..n}

Range(s) == {s[k] : k \in 1..Len(s)}

\* Sequences without a repeated element.
IsDistinct(s) == \A j, k \in 1..Len(s) : j # k => s[j] # s[k]

----------------------------------------------------------------------------
(* ApplyService.applyPatches *)

NoError == "undefined"
ErrNoneAccepted == "No files accepted for apply."
ErrCommitFalse == "vscode.workspace.applyEdit returned false - no changes were made."
ErrOpen == "openTextDocument failed"
ErrCommit == "applyEdit threw"
ErrSave == "save threw"

FilePaths(patches) == [k \in 1..Len(patches) |-> patches[k].filePath]

\* acceptedByFileId[path] === true: the key is present and its value is true.
IsAccepted(acc, path) == path \in DOMAIN acc /\ acc[path] = TRUE

\* Mutant: every patch whose file has an entry is taken, whatever the entry says.
AcceptedPatchAnyEntry(acc, p) == p.filePath \in DOMAIN acc

AcceptedPatch(acc, p) == IsAccepted(acc, p.filePath)

\* Mutant: rejects only the files marked false, so a file with no entry is lost.
RejectedPatchOnlyFalse(acc, p) == p.filePath \in DOMAIN acc /\ acc[p.filePath] = FALSE

RejectedPatch(acc, p) == ~IsAccepted(acc, p.filePath)

Accepted(patches, acc) == SelectSeq(patches, LAMBDA p : AcceptedPatch(acc, p))

Rejected(patches, acc) == SelectSeq(patches, LAMBDA p : RejectedPatch(acc, p))

\* Mutant: the early return forgets its error.
NoneAcceptedResultNoError(applied, skipped) ==
    [applied |-> applied, skipped |-> skipped, error |-> "undefined"]

NoneAcceptedResult(applied, skipped) ==
    [applied |-> applied, skipped |-> skipped, error |-> ErrNoneAccepted]

\* Mutant: the files of the failed edit are not moved to skipped.
CommitFalseResultDropsApplied(applied, skipped) ==
    [applied |-> <<>>, skipped |-> skipped, error |-> ErrCommitFalse]

CommitFalseResult(applied, skipped) ==
    [applied |-> <<>>, skipped |-> applied \o skipped, error |-> ErrCommitFalse]

SuccessResult(applied, skipped) ==
    [applied |-> applied, skipped |-> skipped, error |-> NoError]

ThrownResult(patches, msg) ==
    [applied |-> <<>>, skipped |-> FilePaths(patches), error |-> msg]

RollbackHint(msg) == <<"LogoCode: Apply failed", msg, "Use Edit -> Undo to rollback.">>

NoResult == [applied |-> <<>>, skipped |-> <<>>, error |-> NoError]

ApIdle ==
    [pc |-> "idle", caller |-> "none", patches |-> <<>>, accepted |-> <<>>,
     applied |-> <<>>, skipped |-> <<>>, i |-> 0, result |-> NoResult,
     \* bookkeeping of the call, read by the properties only:
     acc |-> <<>>,                     \* the accept map as it was at the call
     pre |-> [p \in Paths |-> <<>>],   \* the documents as they were at the call
     io |-> <<>>,                      \* vscode calls made so far, in order
     ended |-> "no"]                   \* how the call left its body

\* The synchronous prefix of applyPatches, up to its first await or its
\* early return: the accepted/rejected partition is fixed here.
ApplyPatchesEnter(patches, acc, caller) ==
    LET accepted == Accepted(patches, acc)
        skipped == FilePaths(Rejected(patches, acc))
        base == [ApIdle EXCEPT !.caller = caller, !.patches = patches,
                               !.accepted = accepted, !.skipped = skipped,
                               !.acc = acc, !.pre = content]
    IN  IF Len(accepted) = 0
        THEN [base EXCEPT !.pc = "done", !.ended = "noneAccepted",
                          !.result = NoneAcceptedResult(<<>>, skipped)]
        ELSE [base EXCEPT !.pc = "open", !.i = 1,
                          !.io = <<<<"open", accepted[1].filePath>>>>]

\* The activation after a throw inside the try block (the catch clause).
ApCaught(a, msg) ==
    [a EXCEPT !.pc = "done", !.ended = "thrown",
              !.result = ThrownResult(a.patches, msg)]

\* Resumption of `await openTextDocument(uri)` for accepted[i].
ApOpen ==
    /\ ap.pc = "open"
    /\ UNCHANGED <<graphVars, search>>
    /\ \/ /\ LET applied == Append(ap.applied, ap.accepted[ap.i].filePath)
             IN  ap' = IF ap.i < Len(ap.accepted)
                       THEN [ap EXCEPT !.applied = applied, !.i = ap.i + 1,
                              !.io = Append(ap.io,
                                        <<"open", ap.accepted[ap.i + 1].filePath>>)]
                       ELSE [ap EXCEPT !.applied = applied, !.i = 0,
                              !.pc = "commit",
                              !.io = Append(ap.io, <<"applyEdit">>)]
          /\ UNCHANGED message
       \/ /\ ap' = ApCaught(ap, ErrOpen)
          /\ message' = RollbackHint(ErrOpen)
    /\ returned' = NoReturn
    /\ UNCHANGED <<phase, plan, diffResult, content, dirty, gd, budget, held>>

\* The patched text the edit holds for a path (edit.replace over the full range).
EditText(accepted, path) ==
    LET k == CHOOSE k \in 1..Len(accepted) : accepted[k].filePath = path
    IN  accepted[k].patchedContent

\* Documents after the WorkspaceEdit was applied as a whole.
CommittedContent(cont, accepted) ==
    [p \in Paths |-> IF p \in Range(FilePaths(accepted))
                     THEN EditText(accepted, p) ELSE cont[p]]

CommittedDirty(cont, drt, accepted) ==
    [p \in Paths |-> IF p \in Range(FilePaths(accepted))
                     THEN drt[p] \/ cont[p] # EditText(accepted, p) ELSE drt[p]]

\* First index k >= from of `applied` whose document is dirty, 0 if none:
\* the save loop awaits only for dirty documents.
NextDirty(applied, from, drt) ==
    IF \E k \in from..Len(applied) : drt[applied[k]]
    THEN CHOOSE k \in from..Len(applied) :
            /\ drt[applied[k]]
            /\ \A j \in from..(k - 1) : ~drt[applied[j]]
    ELSE 0

\* The save loop from index `from`: suspended at the next dirty document,
\* or finished with the success result.
ApSaveFrom(a, from, drt) ==
    LET k == NextDirty(a.applied, from, drt)
    IN  IF k = 0
        THEN [a EXCEPT !.pc = "done", !.i = 0, !.ended = "success",
                       !.result = SuccessResult(a.applied, a.skipped)]
        ELSE [a EXCEPT !.pc = "save", !.i = k,
                       !.io = Append(a.io, <<"save", a.applied[k]>>)]

\* Resumption of `await vscode.workspace.applyEdit(edit)`.
ApCommit ==
    /\ ap.pc = "commit"
    /\ UNCHANGED <<graphVars, search>>
    /\ \/ /\ content' = CommittedContent(content, ap.accepted)
          /\ dirty' = CommittedDirty(content, dirty, ap.accepted)
          /\ ap' = ApSaveFrom(ap, 1, dirty')
          /\ UNCHANGED message
       \/ /\ ap' = [ap EXCEPT !.pc = "done", !.ended = "commitFalse",
                              !.result = CommitFalseResult(ap.applied, ap.skipped)]
          /\ UNCHANGED <<content, dirty, message>>
       \/ /\ ap' = ApCaught(ap, ErrCommit)
          /\ message' = RollbackHint(ErrCommit)
          /\ UNCHANGED <<content, dirty>>
    /\ returned' = NoReturn
    /\ UNCHANGED <<phase, plan, diffResult, gd, budget, held>>

\* Resumption of `await doc.save()` for applied[i].
ApSave ==
    /\ ap.pc = "save"
    /\ UNCHANGED <<graphVars, search>>
    /\ \/ /\ dirty' = [dirty EXCEPT ![ap.applied[ap.i]] = FALSE]
          /\ ap' = ApSaveFrom(ap, ap.i + 1, dirty')
          /\ UNCHANGED message
       \/ /\ ap' = ApSaveFrom(ap, ap.i + 1, dirty)
          /\ UNCHANGED <<dirty, message>>
       \/ /\ ap' = ApCaught(ap, ErrSave)
          /\ message' = RollbackHint(ErrSave)
          /\ UNCHANGED dirty
    /\ returned' = NoReturn
    /\ UNCHANGED <<phase, plan, diffResult, content, gd, budget, held>>

----------------------------------------------------------------------------
(* ApplyService accept helpers, acting on a session's acceptedByFileId *)

\* !acceptedByFileId[filePath]: a missing entry reads as undefined, whose
\* negation is true.
\* Mutant: a path without entry gets an entry that says false.
ToggleAcceptMapAbsentFalse(acc, path) ==
    [q \in DOMAIN acc \cup {path} |->
        IF q = path THEN (path \in DOMAIN acc /\ ~acc[path]) ELSE acc[q]]

\* Mutant: the entry is set to true instead of negated.
ToggleAcceptMapSetsTrue(acc, path) ==
    [q \in DOMAIN acc \cup {path} |-> IF q = path THEN TRUE ELSE acc[q]]

ToggleAcceptMap(acc, path) ==
    [q \in DOMAIN acc \cup {path} |->
        IF q = path THEN ~IsAccepted(acc, path) ELSE acc[q]]

AcceptAllTouchedMap(acc) == [q \in DOMAIN acc |-> TRUE]

AcceptNoneMap(acc) == [q \in DOMAIN acc |-> FALSE]

----------------------------------------------------------------------------
(* DiffEngine.computeDiff *)

Ids(items) == [k \in 1..Len(items) |-> items[k].id]

\* The elements of s in order of first occurrence (iteration order of a JS
\* Set or of a Map's keys).
RECURSIVE Dedupe(_)
Dedupe(s) ==
    IF s = <<>> THEN <<>>
    ELSE LET front == Dedupe(SubSeq(s, 1, Len(s) - 1))
             last == s[Len(s)]
         IN  IF last \in Range(front) THEN front ELSE Append(front, last)

\* new Map(items.map(x => [x.id, x])).get(id): the last item with the id.
MapGet(items, id) ==
    items[CHOOSE k \in 1..Len(items) :
            /\ items[k].id = id
            /\ \A j \in (k + 1)..Len(items) : items[j].id # id]

\* items.find(x => x.id === id): the first item with the id.
Find(items, id) ==
    items[CHOOSE k \in 1..Len(items) :
            /\ items[k].id = id
            /\ \A j \in 1..(k - 1) : items[j].id # id]

\* Mutant: a move to another file counts as a change too.
NodeChangedAlsoFilePath(before, after) ==
    \/ before.label # after.label
    \/ before.type # after.type
    \/ before.line # after.line
    \/ before.column # after.column
    \/ before.filePath # after.filePath

NodeChanged(before, after) ==
    \/ before.label # after.label
    \/ before.type # after.type
    \/ before.line # after.line
    \/ before.column # after.column

\* Mutant: the touched-file test comes first.
NodeStatusTouchedFirst(beforeGraph, afterGraph, addedNodes, removedNodes, changedNodes, touchedFiles, id) ==
    LET node == IF id \in Range(Ids(afterGraph.nodes))
                THEN Find(afterGraph.nodes, id)
                ELSE Find(beforeGraph.nodes, id)
    IN  IF node.filePath \in touchedFiles THEN "touched"
        ELSE IF id \in Range(addedNodes) THEN "added"
        ELSE IF id \in Range(removedNodes) THEN "removed"
        ELSE IF id \in Range(changedNodes) THEN "changed"
        ELSE "unchanged"

NodeStatus(beforeGraph, afterGraph, addedNodes, removedNodes, changedNodes, touchedFiles, id) ==
    IF id \in Range(addedNodes) THEN "added"
    ELSE IF id \in Range(removedNodes) THEN "removed"
    ELSE IF id \in Range(changedNodes) THEN "changed"
    ELSE LET node == IF id \in Range(Ids(afterGraph.nodes))
                     THEN Find(afterGraph.nodes, id)
                     ELSE Find(beforeGraph.nodes, id)
         IN  IF node.filePath \in touchedFiles THEN "touched" ELSE "unchanged"

\* Mutant: an edge that is not added is reported removed.
EdgeStatusNeverUnchanged(addedEdges, removedEdges, id) ==
    IF id \in Range(addedEdges) THEN "added" ELSE "removed"

EdgeStatus(addedEdges, removedEdges, id) ==
    IF id \in Range(addedEdges) THEN "added"
    ELSE IF id \in Range(removedEdges) THEN "removed"
    ELSE "unchanged"

\* Mutant: only the ids of the after snapshot get a status.
AllIdsAfterOnly(beforeItems, afterItems) == Range(Ids(afterItems))

\* new Set([...before.map(x => x.id), ...after.map(x => x.id)])
AllIds(beforeItems, afterItems) == Range(Ids(beforeItems)) \cup Range(Ids(afterItems))

BuildDiffMeta(beforeGraph, afterGraph, addedNodes, removedNodes, changedNodes, addedEdges, removedEdges, touchedFiles) ==
    LET allNodeIds == AllIds(beforeGraph.nodes, afterGraph.nodes)
        allEdgeIds == AllIds(beforeGraph.edges, afterGraph.edges)
    IN  [nodeStatusById |->
            [id \in allNodeIds |->
                NodeStatus(beforeGraph, afterGraph, addedNodes, removedNodes,
                           changedNodes, touchedFiles, id)],
         edgeStatusByKey |->
            [id \in allEdgeIds |-> EdgeStatus(addedEdges, removedEdges, id)],
         acceptedByFileId |-> [fp \in touchedFiles |-> FALSE]]

\* Mutant: only the first patch's file gets an accept entry.
TouchedFilesFirstOnly(patches) ==
    IF patches = <<>> THEN {} ELSE {patches[1].filePath}

\* new Set(patches.map(p => p.filePath))
TouchedFiles(patches) == Range(FilePaths(patches))

ComputeDiff(beforeGraph, afterGraph, patches) ==
    LET beforeIds == Dedupe(Ids(beforeGraph.nodes))
        afterIds == Dedupe(Ids(afterGraph.nodes))
        beforeEdgeIds == Dedupe(Ids(beforeGraph.edges))
        afterEdgeIds == Dedupe(Ids(afterGraph.edges))
        touchedFiles == TouchedFiles(patches)
        addedNodes == SelectSeq(afterIds, LAMBDA id : id \notin Range(beforeIds))
        changedNodes ==
            SelectSeq(afterIds, LAMBDA id :
                /\ id \in Range(beforeIds)
                /\ NodeChanged(MapGet(beforeGraph.nodes, id),
                               MapGet(afterGraph.nodes, id)))
        removedNodes == SelectSeq(beforeIds, LAMBDA id : id \notin Range(afterIds))
        addedEdges == SelectSeq(afterEdgeIds, LAMBDA id : id \notin Range(beforeEdgeIds))
        removedEdges == SelectSeq(beforeEdgeIds, LAMBDA id : id \notin Range(afterEdgeIds))
    IN  [kind |-> "diffResult",
         beforeGraph |-> beforeGraph,
         afterGraph |-> afterGraph,
         addedNodes |-> addedNodes,
         removedNodes |-> removedNodes,
         changedNodes |-> changedNodes,
         addedEdges |-> addedEdges,
         removedEdges |-> removedEdges,
         diffMeta |-> BuildDiffMeta(beforeGraph, afterGraph, addedNodes,
                                    removedNodes, changedNodes, addedEdges,
                                    removedEdges, touchedFiles),
         patches |-> patches]

----------------------------------------------------------------------------
(* AgentService *)

\* The snapshot the graph-data callback resolves with: a graph of the
\* workspace's files.
FileNode(path) ==
    [id |-> <<"file", path>>, label |-> path, type |-> "file",
     filePath |-> path, line |-> 1, column |-> 1]

WorkspaceGraph ==
    [nodes |-> <<FileNode("a.ts"), FileNode("b.ts")>>,
     edges |-> <<[id |-> <<"import", <<"file", "b.ts">>, <<"file", "a.ts">>>>]>>]

GraphChoices == {WorkspaceGraph}

\* Context items handed to generatePlan.
Requests == {"refactor X"}

ContextItems == [filePath : Paths, snippet : {<<"s">>}]

\* The context lists handed to generatePlan.
Contexts == SeqUpTo(ContextItems, MaxContext)

Min(a, b) == IF a < b THEN a ELSE b

\* String.prototype.slice(0, n)
Slice(str, n) == SubSeq(str, 1, Min(n, Len(str)))

SnippetLimit == 50

PlanStepFor(fp, k) ==
    [id |-> <<"step", k - 1>>, description |-> <<"Modify", fp>>, filePath |-> fp,
     type |-> "modify", status |-> "pending"]

PlaceholderStep(userRequest) ==
    [id |-> <<"step", 0>>, description |-> <<userRequest>>,
     type |-> "modify", status |-> "pending"]

\* Mutant: a file named by two context items is listed twice.
ContextFilesKeepDuplicates(context) == [k \in 1..Len(context) |-> context[k].filePath]

\* [...new Set(context.map(c => c.filePath))]
ContextFiles(context) == Dedupe([k \in 1..Len(context) |-> context[k].filePath])

BuildPlan(userRequest, context) ==
    LET touchedFiles == ContextFiles(context)
        steps == [k \in 1..Len(touchedFiles) |-> PlanStepFor(touchedFiles[k], k)]
    IN  [kind |-> "plan",
         planSteps |-> IF Len(steps) = 0 THEN <<PlaceholderStep(userRequest)>> ELSE steps,
         touchedFiles |-> touchedFiles,
         touchedSymbols |->
            [k \in 1..Len(context) |-> Slice(context[k].snippet, SnippetLimit)]]

NoCallInFlight == gd.pc = "idle" /\ ap.pc = "idle"

\* Issuing a call.  Under the one-at-a-time discipline (budget 0) a call is
\* issued only when no earlier call is still suspended; each call issued
\* while another is suspended takes one from the budget.
IssueCall ==
    IF NoCallInFlight THEN budget' = budget
    ELSE budget > 0 /\ budget' = budget - 1

\* Mutant: generatePlan returns the machine to idle once the plan is built.
PhaseAfterPlanIdle == "idle"

PhaseAfterPlan == "planning"

\* Mutant: reset clears plan and session and leaves the phase.
ResetStateKeepsPhase ==
    /\ plan' = Undefined
    /\ diffResult' = Undefined
    /\ phase' = phase

\* Mutant: reset forgets the diff session.
ResetStateKeepsSession ==
    /\ plan' = Undefined
    /\ diffResult' = diffResult
    /\ phase' = "idle"

ResetState ==
    /\ plan' = Undefined
    /\ diffResult' = Undefined
    /\ phase' = "idle"

\* Mutant: a new diff updates the stored session object in place, so a
\* reference kept from before denotes the new session too.
HeldAfterReplaceInPlace(h, old) == h

\* Mutant: the accept map object is shared between sessions and cleared for
\* the new one, so the earlier session loses its entries.
HeldAfterReplaceCleared(h, old) ==
    IF h = ThisDiffResult
    THEN [old EXCEPT !.diffMeta.acceptedByFileId =
                [fp \in DOMAIN old.diffMeta.acceptedByFileId |-> FALSE]]
    ELSE h

\* What a kept reference denotes once `this._diffResult` is assigned a new
\* object (computeDiff builds its result and its maps from fresh literals) or
\* undefined: a reference to the object the field held (state `old`) now
\* denotes an object of its own.
HeldAfterReplace(h, old) == IF h = ThisDiffResult THEN old ELSE h

Reset ==
    /\ IssueCall
    /\ UNCHANGED <<graphVars, search>>
    /\ ResetState
    /\ held' = HeldAfterReplace(held, diffResult)
    /\ returned' = Undefined
    /\ UNCHANGED <<content, dirty, gd, ap, message>>

\* generatePlan has no await: it runs to completion in one step.
GeneratePlan(userRequest, context) ==
    /\ IssueCall
    /\ UNCHANGED <<graphVars, search>>
    /\ returned' = ThisPlan
    /\ phase' = PhaseAfterPlan
    /\ plan' = BuildPlan(userRequest, context)
    /\ message' = <<"Plan ready", Len(plan'.planSteps), Len(plan'.touchedFiles)>>
    /\ UNCHANGED <<diffResult, content, dirty, gd, ap, held>>

\* `unread` lists the files the call has warned about ("Could not read").
GdIdle == [pc |-> "idle", files |-> <<>>, i |-> 0, patches |-> <<>>, unread |-> <<>>]

\* The stub patch of generateDiff: the original text plus the marker line.
StubPatch(fp, original) ==
    [filePath |-> fp, originalContent |-> original,
     patchedContent |-> Append(original, Marker)]

\* Mutant: a failed precondition guard puts the machine back to idle.
PhaseOnEntryResets(required, current, entered) ==
    IF required = Undefined THEN "idle" ELSE entered

\* The phase after the precondition guard of generateDiff / applyChanges.
PhaseOnEntry(required, current, entered) ==
    IF required = Undefined THEN current ELSE entered

\* generateDiff up to its first await.
GenerateDiffStart ==
    /\ IssueCall
    /\ UNCHANGED <<graphVars, search>>
    /\ gd.pc = "idle"
    /\ phase' = PhaseOnEntry(plan, phase, "diffing")
    /\ IF plan = Undefined
       THEN /\ message' = <<"No plan available. Generate a plan first.">>
            /\ returned' = Undefined
            /\ UNCHANGED gd
       ELSE /\ \A p \in Paths : Len(content[p]) <= MaxLines
            /\ message' = <<"Computing diff">>
            /\ gd' = IF Len(plan.touchedFiles) = 0
                     THEN [GdIdle EXCEPT !.pc = "graph"]
                     ELSE [GdIdle EXCEPT !.pc = "read", !.i = 1,
                                         !.files = plan.touchedFiles]
            /\ returned' = NoReturn
    /\ UNCHANGED <<plan, diffResult, content, dirty, ap, held>>

\* Mutant: a failed read ends the loop over the touched files.
ReadFailedEndsLoop(next, fp) ==
    [next EXCEPT !.unread = Append(next.unread, fp), !.i = 0, !.pc = "graph"]

\* The inner catch clause: the warning is issued and the loop goes on.
ReadFailed(next, fp) == [next EXCEPT !.unread = Append(next.unread, fp)]

\* Resumption of `await openTextDocument(uri)` for touchedFiles[i]; a read
\* failure is reported and the file is left out.
GdRead ==
    /\ gd.pc = "read"
    /\ UNCHANGED <<graphVars, search>>
    /\ LET fp == gd.files[gd.i]
           more == gd.i < Len(gd.files)
           next == IF more THEN [gd EXCEPT !.i = gd.i + 1]
                   ELSE [gd EXCEPT !.i = 0, !.pc = "graph"]
       IN  \/ /\ gd' = [next EXCEPT !.patches =
                            Append(gd.patches, StubPatch(fp, content[fp]))]
              /\ UNCHANGED message
           \/ /\ gd' = ReadFailed(next, fp)
              /\ message' = <<"Could not read", fp>>
    /\ returned' = NoReturn
    /\ UNCHANGED <<phase, plan, diffResult, content, dirty, ap, budget, held>>

\* Mutant: the catch clause of generateDiff leaves the phase alone.
PhaseAfterDiffFailureStays == "diffing"

PhaseAfterDiffFailure == "idle"

\* Mutant: the catch clause of generateDiff drops the stored session.
SessionAfterDiffFailureCleared(session) == Undefined

\* The catch clause of generateDiff does not assign `_diffResult`.
SessionAfterDiffFailure(session) == session

\* Resumption of `await getGraphData()`, then computeDiff; a throw lands in
\* the catch clause.
GdGraph ==
    /\ gd.pc = "graph"
    /\ UNCHANGED <<graphVars, search>>
    /\ \/ \E g \in GraphChoices :
            /\ diffResult' = ComputeDiff(g, g, gd.patches)
            /\ phase' = "reviewing"
            /\ message' = <<"Diff ready", Len(gd.patches)>>
            /\ returned' = ThisDiffResult
            /\ held' = HeldAfterReplace(held, diffResult)
       \/ /\ message' = <<"Diff failed">>
          /\ phase' = PhaseAfterDiffFailure
          /\ returned' = Undefined
          /\ diffResult' = SessionAfterDiffFailure(diffResult)
          /\ UNCHANGED held
    /\ gd' = GdIdle
    /\ UNCHANGED <<plan, content, dirty, ap, budget>>

\* applyChanges up to the await of applyPatches.
ApplyChangesStart ==
    /\ IssueCall
    /\ UNCHANGED <<graphVars, search>>
    /\ ap.pc = "idle"
    /\ phase' = PhaseOnEntry(diffResult, phase, "applying")
    /\ IF diffResult = Undefined
       THEN /\ message' = <<"No diff result available. Generate a diff first.">>
            /\ returned' = Undefined
            /\ UNCHANGED ap
       ELSE /\ message' = <<"Applying changes">>
            /\ ap' = ApplyPatchesEnter(diffResult.patches,
                                       diffResult.diffMeta.acceptedByFileId,
                                       "applyChanges")
            /\ returned' = NoReturn
    /\ UNCHANGED <<plan, diffResult, content, dirty, gd, held>>

HasFilePath(step) == "filePath" \in DOMAIN step

\* Mutant: a skipped file's step is left as it was.
MarkStepAppliedOnly(step, result) ==
    IF HasFilePath(step) /\ step.filePath \in Range(result.applied)
    THEN [step EXCEPT !.status = "applied"]
    ELSE step

MarkStep(step, result) ==
    IF HasFilePath(step) /\ step.filePath \in Range(result.applied)
    THEN [step EXCEPT !.status = "applied"]
    ELSE IF HasFilePath(step) /\ step.filePath \in Range(result.skipped)
    THEN [step EXCEPT !.status = "rejected"]
    ELSE step

MarkPlan(pl, result) ==
    IF pl = Undefined THEN pl
    ELSE [pl EXCEPT !.planSteps =
            [k \in 1..Len(pl.planSteps) |-> MarkStep(pl.planSteps[k], result)]]

\* Mutant: the final phase change is skipped when the apply reported an error.
PhaseAfterApplySkipsOnError(result) ==
    IF result.error # NoError THEN "applying" ELSE "idle"

PhaseAfterApply(result) == "idle"

\* applyChanges after applyPatches has settled.
ApplyChangesFinish ==
    /\ ap.pc = "done"
    /\ UNCHANGED <<graphVars, search>>
    /\ ap.caller = "applyChanges"
    /\ message' = IF ap.result.error # NoError
                  THEN <<"Apply error", ap.result.error>>
                  ELSE <<"Applied", Len(ap.result.applied), Len(ap.result.skipped)>>
    /\ plan' = MarkPlan(plan, ap.result)
    /\ phase' = PhaseAfterApply(ap.result)
    /\ returned' = ap.result
    /\ ap' = ApIdle
    /\ UNCHANGED <<diffResult, content, dirty, gd, budget, held>>

\* The review actions of the diff panel and of /accept-all, /accept-none.  The
\* panel draws an accept button only on the file nodes of touched files, so a
\* toggle arrives for a path that has an entry in acceptedByFileId.
\* Mutant: the edit of a suspended applyPatches is put together from the map
\* as it is when the commit comes, so a review call changes what is written.
SetAcceptMapReachesApply(acc) ==
    /\ diffResult # Undefined
    /\ diffResult' = [diffResult EXCEPT !.diffMeta.acceptedByFileId = acc]
    /\ returned' = NoReturn
    /\ ap' = IF ap.pc = "commit"
             THEN [ap EXCEPT !.accepted = Accepted(ap.patches, acc)]
             ELSE ap
    /\ UNCHANGED <<phase, plan, content, dirty, gd, message, held>>

SetAcceptMap(acc) ==
    /\ diffResult # Undefined
    /\ diffResult' = [diffResult EXCEPT !.diffMeta.acceptedByFileId = acc]
    /\ returned' = NoReturn
    /\ UNCHANGED <<phase, plan, content, dirty, gd, ap, message, held>>

ToggleAccept(path) ==
    /\ IssueCall
    /\ UNCHANGED <<graphVars, search>>
    /\ diffResult # Undefined
    /\ path \in DOMAIN diffResult.diffMeta.acceptedByFileId
    /\ SetAcceptMap(ToggleAcceptMap(diffResult.diffMeta.acceptedByFileId, path))

\* applyService.toggleAccept(agent.diffMeta, filePath) with whatever path the
\* caller passes, a path without entry included.
ToggleAcceptAnyPath(path) ==
    /\ IssueCall
    /\ UNCHANGED <<graphVars, search>>
    /\ diffResult # Undefined
    /\ SetAcceptMap(ToggleAcceptMap(diffResult.diffMeta.acceptedByFileId, path))

AcceptAllTouched ==
    /\ IssueCall
    /\ UNCHANGED <<graphVars, search>>
    /\ diffResult # Undefined
    /\ SetAcceptMap(AcceptAllTouchedMap(diffResult.diffMeta.acceptedByFileId))

AcceptNone ==
    /\ IssueCall
    /\ UNCHANGED <<graphVars, search>>
    /\ diffResult # Undefined
    /\ SetAcceptMap(AcceptNoneMap(diffResult.diffMeta.acceptedByFileId))

\* DiffPanel.show(diffResult): the panel keeps the reference it is handed.
Show ==
    /\ IssueCall
    /\ UNCHANGED <<graphVars, search>>
    /\ diffResult # Undefined
    /\ held' = ThisDiffResult
    /\ returned' = NoReturn
    /\ UNCHANGED <<phase, plan, diffResult, content, dirty, gd, ap, message>>

\* The session the kept reference denotes.
HeldSession == IF held = ThisDiffResult THEN diffResult ELSE held

\* The accept helpers called with the diffMeta of the kept session: they
\* write to the map of whatever object the reference denotes.
SetHeldAcceptMap(acc) ==
    /\ IF held = ThisDiffResult
       THEN /\ diffResult' = [diffResult EXCEPT !.diffMeta.acceptedByFileId = acc]
            /\ UNCHANGED held
       ELSE /\ held' = [held EXCEPT !.diffMeta.acceptedByFileId = acc]
            /\ UNCHANGED diffResult
    /\ returned' = NoReturn
    /\ UNCHANGED <<phase, plan, content, dirty, gd, ap, message>>

ToggleHeld(path) ==
    /\ IssueCall
    /\ UNCHANGED <<graphVars, search>>
    /\ HeldSession # Undefined
    /\ path \in DOMAIN HeldSession.diffMeta.acceptedByFileId
    /\ SetHeldAcceptMap(ToggleAcceptMap(HeldSession.diffMeta.acceptedByFileId, path))

AcceptAllHeld ==
    /\ IssueCall
    /\ UNCHANGED <<graphVars, search>>
    /\ HeldSession # Undefined
    /\ SetHeldAcceptMap(AcceptAllTouchedMap(HeldSession.diffMeta.acceptedByFileId))

AcceptNoneHeld ==
    /\ IssueCall
    /\ UNCHANGED <<graphVars, search>>
    /\ HeldSession # Undefined
    /\ SetHeldAcceptMap(AcceptNoneMap(HeldSession.diffMeta.acceptedByFileId))

----------------------------------------------------------------------------
(* ApplyService called on its own: any patch list over distinct paths and  *)
(* any accept map, keys missing included.                                  *)

\* Texts a patch may carry.
PatchTexts == {<<"x">>, <<"x", Marker>>}

PatchLists ==
    {ps \in SeqUpTo([filePath : Paths, originalContent : {<<"x">>},
                     patchedContent : PatchTexts], Cardinality(Paths)) :
        IsDistinct(FilePaths(ps))}

AcceptMaps == UNION {[D -> BOOLEAN] : D \in SUBSET Paths}

ApplyPatchesCall(patches, acc) ==
    /\ NoCallInFlight
    /\ UNCHANGED <<graphVars, search>>
    /\ ap' = ApplyPatchesEnter(patches, acc, "direct")
    /\ returned' = NoReturn
    /\ UNCHANGED <<phase, plan, diffResult, content, dirty, gd, message, budget, held>>

ApplyPatchesReturn ==
    /\ ap.pc = "done"
    /\ UNCHANGED <<graphVars, search>>
    /\ ap.caller = "direct"
    /\ returned' = ap.result
    /\ ap' = ApIdle
    /\ UNCHANGED <<phase, plan, diffResult, content, dirty, gd, message, budget, held>>

----------------------------------------------------------------------------
(* DiffEngine called on its own: two snapshots whose node and edge ids are  *)
(* unique within a snapshot, and any patch list, duplicate paths included.  *)

NodeIds == {"n1", "n2"}

BaseNode(id) ==
    [id |-> id, label |-> "f", type |-> "function", filePath |-> "a.ts",
     line |-> 1, column |-> 1, parentId |-> "p", metadata |-> "m"]

\* The node with one field edited.
NodeVersions(id) ==
    {BaseNode(id),
     [BaseNode(id) EXCEPT !.label = "g"],
     [BaseNode(id) EXCEPT !.type = "class"],
     [BaseNode(id) EXCEPT !.line = 2],
     [BaseNode(id) EXCEPT !.column = 2],
     [BaseNode(id) EXCEPT !.filePath = "b.ts"],
     [BaseNode(id) EXCEPT !.parentId = "q"],
     [BaseNode(id) EXCEPT !.metadata = "m2"]}

BeforeNodes == UNION {{BaseNode(id), [BaseNode(id) EXCEPT !.filePath = "b.ts"]} : id \in NodeIds}

AfterNodes == UNION {NodeVersions(id) : id \in NodeIds}

EdgeIds == {"e1", "e2"}

BaseEdge(id) == [id |-> id, source |-> "n1", target |-> "n2", type |-> "call"]

EdgeVersions(id) == {BaseEdge(id), [BaseEdge(id) EXCEPT !.target = "n1"]}

UniqueIdLists(items, n) == {xs \in SeqUpTo(items, n) : IsDistinct(Ids(xs))}

BeforeGraphs ==
    [nodes : UniqueIdLists(BeforeNodes, Cardinality(NodeIds)),
     edges : UniqueIdLists({BaseEdge(id) : id \in EdgeIds}, 1)]

AfterGraphs ==
    [nodes : UniqueIdLists(AfterNodes, Cardinality(NodeIds)),
     edges : UniqueIdLists(UNION {EdgeVersions(id) : id \in EdgeIds}, 1)]

DiffPatchLists ==
    SeqUpTo({StubPatch(fp, <<"x">>) : fp \in Paths}, Cardinality(Paths))

\* computeDiff(beforeGraph, afterGraph, patches), its result kept by the caller.
ComputeDiffCall(beforeGraph, afterGraph, patches) ==
    /\ NoCallInFlight
    /\ UNCHANGED <<graphVars, search>>
    /\ diffResult = Undefined
    /\ diffResult' = ComputeDiff(beforeGraph, afterGraph, patches)
    /\ returned' = ThisDiffResult
    /\ UNCHANGED <<phase, plan, content, dirty, gd, ap, message, budget, held>>

----------------------------------------------------------------------------
(* DependencyExtractor.extractGraphData                                     *)
(*                                                                          *)
(* A path, an id or a node label is a list of text pieces that stands for   *)
(* their concatenation: the template `function:${fn.filePath}:${fn.name}`   *)
(* is <<"function:">> \o fn.filePath \o <<":", fn.name>>.  nodeMap and      *)
(* edgeMap are lists of entries in insertion order, the order in which a    *)
(* JavaScript Map iterates.  fileToNodes is written by trackFileNode and    *)
(* read by nothing, so it is left out.                                      *)

RECURSIVE FoldLeft(_, _, _)
\* for (const x of list) { acc = Op(acc, x) }
FoldLeft(Op(_, _), acc, list) ==
    IF list = <<>> THEN acc ELSE FoldLeft(Op, Op(acc, Head(list)), Tail(list))

\* Extension pieces of a file name; every other piece of a path is a
\* directory or file segment written with its leading separator.
ExtensionPieces == {".ts", ".tsx", ".js", ".jsx"}

\* path.basename: the last segment with its extension.
Basename(filePath) ==
    LET segments == {k \in 1..Len(filePath) : filePath[k] \notin ExtensionPieces}
    IN  IF segments = {} THEN filePath
        ELSE SubSeq(filePath, CHOOSE k \in segments : \A j \in segments : j <= k, Len(filePath))

FileId(filePath) == <<"file:">> \o filePath

FunctionId(fn) == <<"function:">> \o fn.filePath \o <<":", fn.name>>

ClassId(cls) == <<"class:">> \o cls.filePath \o <<":", cls.name>>

MethodId(method, cls) == <<"method:">> \o method.filePath \o <<":", cls.name, ".", method.name>>

ImportEdgeId(sourceFileId, targetId) == <<"import:">> \o sourceFileId \o <<":">> \o targetId

ExtendsEdgeId(classId, parentId) == <<"extends:">> \o classId \o <<":">> \o parentId

ImplementsEdgeId(classId, ifaceId) == <<"implements:">> \o classId \o <<":">> \o ifaceId

ContainsEdgeId(parentId, nodeId) == <<"parent:">> \o parentId \o <<":">> \o nodeId

\* Map.has
MapHas(map, id) == \E k \in 1..Len(map) : map[k].id = id

\* Map.set: a new key goes last, an existing key keeps its place.
MapSet(map, item) ==
    IF MapHas(map, item.id)
    THEN [k \in 1..Len(map) |-> IF map[k].id = item.id THEN item ELSE map[k]]
    ELSE Append(map, item)

\* Map.clear
MapClearKeepsEntries(map) == map

MapClear(map) == <<>>

\* Mutant: the later fact replaces the node.
InsertNodeOverwrites(nodes, node) == MapSet(nodes, node)

\* if (this.nodeMap.has(id)) { return; } this.nodeMap.set(id, node)
InsertNode(nodes, node) ==
    IF MapHas(nodes, node.id) THEN nodes ELSE MapSet(nodes, node)

\* if (!this.edgeMap.has(edgeId)) { this.edgeMap.set(edgeId, edge) }
InsertEdge(edges, edge) ==
    IF MapHas(edges, edge.id) THEN edges ELSE MapSet(edges, edge)

NewFileNode(filePath) ==
    [id |-> FileId(filePath), label |-> Basename(filePath), type |-> "file",
     filePath |-> filePath, metadata |-> [fullPath |-> filePath]]

NewFunctionNode(fn) ==
    [id |-> FunctionId(fn), label |-> <<fn.name>>, type |-> "function",
     filePath |-> fn.filePath, line |-> fn.line, column |-> fn.column,
     parentId |-> FileId(fn.filePath),
     metadata |-> [isExported |-> fn.isExported, isAsync |-> fn.isAsync,
                   parameters |-> fn.parameters]]

ClassExtends(cls) == IF "extends" \in DOMAIN cls THEN cls.extends ELSE "undefined"

\* Mutant: a class is entered as a node of kind interface.
NewClassNodeAsInterface(cls) ==
    [id |-> ClassId(cls), label |-> <<cls.name>>, type |-> "interface",
     filePath |-> cls.filePath, line |-> cls.line, column |-> cls.column,
     parentId |-> FileId(cls.filePath),
     metadata |-> [isExported |-> cls.isExported, extends |-> ClassExtends(cls),
                   implements |-> cls.implements]]

NewClassNode(cls) ==
    [id |-> ClassId(cls), label |-> <<cls.name>>, type |-> "class",
     filePath |-> cls.filePath, line |-> cls.line, column |-> cls.column,
     parentId |-> FileId(cls.filePath),
     metadata |-> [isExported |-> cls.isExported, extends |-> ClassExtends(cls),
                   implements |-> cls.implements]]

NewMethodNode(method, cls) ==
    [id |-> MethodId(method, cls), label |-> <<cls.name, ".", method.name>>,
     type |-> "method", filePath |-> method.filePath, line |-> method.line,
     column |-> method.column, parentId |-> ClassId(cls)]

AddFileNode(nodes, filePath) == InsertNode(nodes, NewFileNode(filePath))

AddFunctionNode(nodes, fn) == InsertNode(nodes, NewFunctionNode(fn))

AddClassNode(nodes, cls) == InsertNode(nodes, NewClassNode(cls))

AddMethodNode(nodes, method, cls) == InsertNode(nodes, NewMethodNode(method, cls))

\* The class node, then one node per method of the class.
AddClassAndMethods(nodes, cls) ==
    LET AddMethod(acc, method) == AddMethodNode(acc, method, cls)
    IN  FoldLeft(AddMethod, AddClassNode(nodes, cls), cls.methods)

\* Entries of the map that satisfy the loop's test, by position.
SymbolHits(nodes, name, types) ==
    {k \in 1..Len(nodes) : nodes[k].label = <<name>> /\ nodes[k].type \in types}

\* Mutant: the last matching entry is taken.
MatchIdLast(nodes, name, types) ==
    LET hits == SymbolHits(nodes, name, types)
    IN  IF hits = {} THEN <<>>
        ELSE nodes[CHOOSE k \in hits : \A j \in hits : j <= k].id

\* for (const [nid, node] of this.nodeMap) { if (...) { return nid } }: the id
\* of the first matching entry, or <<>> for undefined (no id is empty).
MatchId(nodes, name, types) ==
    LET hits == SymbolHits(nodes, name, types)
    IN  IF hits = {} THEN <<>>
        ELSE nodes[CHOOSE k \in hits : \A j \in hits : k <= j].id

\* Mutant: the node's kind is not compared.
FindNodeByNameAnyKind(nodes, name, type) ==
    MatchId(nodes, name, {"file", "function", "class", "method", "interface"})

FindNodeByName(nodes, name, type) == MatchId(nodes, name, {type})

\* Mutant: no file node is created for an import's module path.
EnsureFileNodeSkipped(nodes, filePath) == nodes

\* if (!this.nodeMap.has(sourceFileId)) { this.addFileNode(imp.from) }
EnsureFileNode(nodes, filePath) ==
    IF ~MapHas(nodes, FileId(filePath)) THEN AddFileNode(nodes, filePath) ELSE nodes

\* addImportEdges: st is the pair of maps.
AddImportEdges(st, imp) ==
    LET sourceFileId == FileId(imp.from)
        nodes == EnsureFileNode(st.nodes, imp.from)
        AddName(edges, name) ==
            LET targetId == MatchId(nodes, name, {"function", "class"})
            IN  IF targetId # <<>>
                THEN InsertEdge(edges,
                        [id |-> ImportEdgeId(sourceFileId, targetId),
                         source |-> sourceFileId, target |-> targetId,
                         type |-> "import", label |-> name])
                ELSE edges
    IN  [nodes |-> nodes, edges |-> FoldLeft(AddName, st.edges, imp.imports)]

AddInheritanceEdges(st, cls) ==
    LET classId == ClassId(cls)
        parentId == IF "extends" \in DOMAIN cls
                    THEN FindNodeByName(st.nodes, cls.extends, "class")
                    ELSE <<>>
        extended == IF parentId # <<>>
                    THEN InsertEdge(st.edges,
                            [id |-> ExtendsEdgeId(classId, parentId),
                             source |-> classId, target |-> parentId,
                             type |-> "extends", label |-> "extends"])
                    ELSE st.edges
        AddIface(edges, iface) ==
            LET ifaceId == FindNodeByName(st.nodes, iface, "interface")
            IN  IF ifaceId # <<>>
                THEN InsertEdge(edges,
                        [id |-> ImplementsEdgeId(classId, ifaceId),
                         source |-> classId, target |-> ifaceId,
                         type |-> "implements", label |-> "implements"])
                ELSE edges
    IN  [nodes |-> st.nodes, edges |-> FoldLeft(AddIface, extended, cls.implements)]

\* Mutant: the parent is not looked up.
ParentResolvesUnchecked(nodes, node) == "parentId" \in DOMAIN node

\* node.parentId && this.nodeMap.has(node.parentId)
ParentResolves(nodes, node) ==
    "parentId" \in DOMAIN node /\ MapHas(nodes, node.parentId)

AddContainsEdges(st) ==
    LET AddFor(edges, node) ==
            IF ParentResolves(st.nodes, node)
            THEN InsertEdge(edges,
                    [id |-> ContainsEdgeId(node.parentId, node.id),
                     source |-> node.parentId, target |-> node.id,
                     type |-> "reference", label |-> "contains"])
            ELSE edges
    IN  [nodes |-> st.nodes, edges |-> FoldLeft(AddFor, st.edges, st.nodes)]

\* extractGraphData on an extractor whose maps hold nodeMap0 and edgeMap0:
\* the two maps it ends with.  The snapshot returned is their values.
ExtractGraphData(result, nodeMap0, edgeMap0) ==
    LET AddFile(nodes, file) == AddFileNode(nodes, file.path)
        withFiles == FoldLeft(AddFile, MapClear(nodeMap0), result.files)
        withFunctions == FoldLeft(AddFunctionNode, withFiles, result.functions)
        withClasses == FoldLeft(AddClassAndMethods, withFunctions, result.classes)
        st0 == [nodes |-> withClasses, edges |-> MapClear(edgeMap0)]
        st1 == FoldLeft(AddImportEdges, st0, result.imports)
        st2 == FoldLeft(AddInheritanceEdges, st1, result.classes)
    IN  AddContainsEdges(st2)

----------------------------------------------------------------------------
(* TypeScriptAnalyzer.analyzeWorkspace                                      *)
(*                                                                          *)
(* The workspace is the environment: the files findFiles reports in         *)
(* discovery order, whether reading a file fails, whether the TypeScript    *)
(* program has a source file for it, and its syntax tree.  A syntax node    *)
(* says where visiting it throws: "start" before any fact is pushed,        *)
(* "exports" after the declaration fact and before the export fact; a node  *)
(* with brokenChildren makes ts.forEachChild throw, outside visit's try.    *)
(* The call is modelled as one step: the claims about it do not involve     *)
(* what happens between its awaits.                                         *)

RejectedWith(error) == [kind |-> "rejected", error |-> error]

ErrNoWorkspace == "Workspace path is not available"

ErrSearch == "findFiles rejected"

ErrProgram == "createProgram threw"

\* Directory names of EXCLUDE_PATTERNS.
ExcludedDirs ==
    {"/node_modules", "/.git", "/dist", "/build", "/.next", "/out", "/coverage",
     "/.cache", "/tmp", "/temp", "/.vscode", "/.idea", "/.vs"}

\* Position of the last segment of a path (its extension pieces follow it).
LastSegment(path) ==
    LET segments == {k \in 1..Len(path) : path[k] \notin ExtensionPieces}
    IN  IF segments = {} THEN 0 ELSE CHOOSE k \in segments : \A j \in segments : j <= k

\* A pattern such as '/dist/' is found in the path: a directory of that name.
ShouldExcludeFile(path) ==
    \E k \in 1..(LastSegment(path) - 1) : path[k] \in ExcludedDirs

IsTypeScriptOrJavaScriptFile(path) ==
    path # <<>> /\ path[Len(path)] \in ExtensionPieces

\* path.dirname
Dirname(path) == SubSeq(path, 1, LastSegment(path) - 1)

\* First pieces of a specifier that starts with a dot.
RelativeMarkers == {".", ".."}

\* First pieces of a specifier that names a package.
PackageNames == {"react"}

IsAbsolute(path) == path # <<>> /\ path[1] \notin (RelativeMarkers \cup PackageNames)

\* path.normalize(path.resolve(basePath, filePath)) for a relative filePath:
\* '.' is dropped and '..' leaves the directory reached so far.
ResolveAgainst(basePath, filePath) ==
    LET Step(acc, piece) ==
            IF piece \in {".", "/."} THEN acc
            ELSE IF piece \in {"..", "/.."}
            THEN IF acc = <<>> THEN acc ELSE SubSeq(acc, 1, Len(acc) - 1)
            ELSE Append(acc, piece)
    IN  FoldLeft(Step, basePath, filePath)

\* normalizePath(filePath, basePath), basePath given.
NormalizePath(filePath, basePath) ==
    IF IsAbsolute(filePath) THEN ResolveAgainst(<<>>, filePath)
    ELSE ResolveAgainst(basePath, filePath)

ProbedSuffixes ==
    << <<".ts">>, <<".tsx">>, <<".js">>, <<".jsx">>, <<"/index", ".ts">>, <<"/index", ".js">> >>

\* fs.existsSync
ExistsSync(disk, path) == path \in disk

\* from.startsWith('.')
StartsWithDot(from) == from # <<>> /\ from[1] \in RelativeMarkers

\* The module path extractImport records (part_006:281-291).
ResolvedPath(from, fp, disk) ==
    IF StartsWithDot(from)
    THEN LET resolved == NormalizePath(from, Dirname(fp))
             hits == {k \in 1..Len(ProbedSuffixes) :
                        ExistsSync(disk, resolved \o ProbedSuffixes[k])}
         IN  IF ExistsSync(disk, resolved) \/ hits = {} THEN resolved
             ELSE resolved \o ProbedSuffixes[CHOOSE k \in hits : \A j \in hits : k <= j]
    ELSE from

\* The names an import clause binds: the default name, then the namespace
\* name or the named elements ("" stands for an absent name).
ImportedNames(node) ==
    (IF node.defaultName # "" THEN <<node.defaultName>> ELSE <<>>)
    \o (IF node.namespace # "" THEN <<node.namespace>> ELSE node.named)

\* extractImport; <<>> stands for null (no module specifier text).
ExtractImport(node, fp, disk) ==
    IF node.specifier = <<>> THEN <<>>
    ELSE <<[from |-> ResolvedPath(node.specifier, fp, disk),
            imports |-> ImportedNames(node),
            isDefault |-> node.defaultName # "",
            isNamespace |-> node.namespace # ""]>>

\* extractFunction / extractVarFunc: positions are zero-based in the tree.
ExtractFunction(node, fp, isExported) ==
    [name |-> node.name, filePath |-> fp, line |-> node.line + 1,
     column |-> node.character + 1, isExported |-> isExported, isAsync |-> FALSE,
     parameters |-> <<>>]

\* extractClass; "" stands for a class without an extends clause, whose
\* fact has no extends value.
ExtractClass(node, fp) ==
    LET methods == [k \in 1..Len(node.methods) |->
                        [name |-> node.methods[k].name, filePath |-> fp,
                         line |-> node.methods[k].line + 1,
                         column |-> node.methods[k].character + 1]]
    IN  IF node.extendsName = ""
        THEN [name |-> node.name, filePath |-> fp, line |-> node.line + 1,
              column |-> node.character + 1, isExported |-> node.exported,
              implements |-> <<>>, properties |-> <<>>, methods |-> methods]
        ELSE [name |-> node.name, filePath |-> fp, line |-> node.line + 1,
              column |-> node.character + 1, isExported |-> node.exported,
              extends |-> node.extendsName,
              implements |-> <<>>, properties |-> <<>>, methods |-> methods]

ExportOf(node, fp) ==
    [name |-> node.name, type |-> "named", filePath |-> fp, line |-> node.line + 1,
     column |-> node.character + 1]

\* The facts visitNode pushes for one node before it returns or throws.
DeclarationFacts(node, fp, disk, facts) ==
    IF node.kind = "function"
    THEN [facts EXCEPT !.functions = Append(@, ExtractFunction(node, fp, node.exported))]
    ELSE IF node.kind = "variable"
    THEN [facts EXCEPT !.functions = Append(@, ExtractFunction(node, fp, FALSE))]
    ELSE IF node.kind = "class"
    THEN [facts EXCEPT !.classes = Append(@, ExtractClass(node, fp))]
    ELSE IF node.kind = "import"
    THEN [facts EXCEPT !.imports = @ \o ExtractImport(node, fp, disk)]
    ELSE facts

ExportFacts(node, fp, facts) ==
    IF node.kind \in {"function", "class"} /\ node.exported
    THEN [facts EXCEPT !.exports = Append(@, ExportOf(node, fp))]
    ELSE facts

\* Mutant: a throw in visitNode loses what the node had pushed.
VisitNodeAllOrNothing(node, fp, disk, facts) ==
    IF node.throws = "never"
    THEN ExportFacts(node, fp, DeclarationFacts(node, fp, disk, facts))
    ELSE facts

\* try { this.visitNode(...) } catch { }
VisitNode(node, fp, disk, facts) ==
    IF node.throws = "start" THEN facts
    ELSE IF node.throws = "exports" THEN DeclarationFacts(node, fp, disk, facts)
    ELSE ExportFacts(node, fp, DeclarationFacts(node, fp, disk, facts))

RECURSIVE Visit(_, _, _, _)
\* visit(node): the node, then its children in order.  walk.facts are the
\* fact lists, walk.aborted says that forEachChild has thrown.
Visit(node, fp, disk, walk) ==
    IF walk.aborted THEN walk
    ELSE LET visited == [walk EXCEPT !.facts = VisitNode(node, fp, disk, @)]
             Child(acc, child) == Visit(child, fp, disk, acc)
         IN  IF node.brokenChildren THEN [visited EXCEPT !.aborted = TRUE]
             ELSE FoldLeft(Child, visited, node.children)

\* analyzeSourceFile inside the try of the file loop.
AnalyzeSourceFile(file, disk, facts) ==
    Visit(file.tree, file.path, disk, [facts |-> facts, aborted |-> FALSE]).facts

\* The files that pass the filters and can be read.
ReadableFile(file) ==
    /\ ~ShouldExcludeFile(file.path)
    /\ IsTypeScriptOrJavaScriptFile(file.path)
    /\ file.read = "ok"

\* Mutant: an unreadable file ends the loop.
FileInfosUntilFailure(files) ==
    LET bad == {k \in 1..Len(files) : ~ReadableFile(files[k])}
    IN  IF bad = {} THEN files
        ELSE SubSeq(files, 1, (CHOOSE k \in bad : \A j \in bad : k <= j) - 1)

FileInfosRead(files) == SelectSeq(files, ReadableFile)

FileInfoOf(file) ==
    IF file.parsed
    THEN [path |-> file.path, content |-> <<"text">>, sourceFile |-> "SourceFile"]
    ELSE [path |-> file.path, content |-> <<"text">>]

NoFacts == [functions |-> <<>>, classes |-> <<>>, imports |-> <<>>, exports |-> <<>>]

\* analyzeWorkspace(workspacePath): given says that the argument was passed.
AnalyzeWorkspace(ws, given) ==
    IF ~(given \/ ws.folder) THEN RejectedWith(ErrNoWorkspace)
    ELSE IF ws.fault = "search" THEN RejectedWith(ErrSearch)
    ELSE IF ws.fault = "program" THEN RejectedWith(ErrProgram)
    ELSE LET fileInfos == FileInfosRead(ws.files)
             Analyze(facts, file) ==
                IF file.parsed THEN AnalyzeSourceFile(file, ws.disk, facts) ELSE facts
             facts == FoldLeft(Analyze, NoFacts, fileInfos)
         IN  [files |-> [k \in 1..Len(fileInfos) |-> FileInfoOf(fileInfos[k])],
              functions |-> facts.functions, classes |-> facts.classes,
              imports |-> facts.imports, exports |-> facts.exports]

----------------------------------------------------------------------------
(* TypeScriptAnalyzer called on its own: workspaces of up to two source     *)
(* files, each unreadable, without a source file in the program, or with a  *)
(* tree of a few statements, some of which throw when visited.              *)

\* Most statements in the syntax tree of a.ts.
MaxStatements == 2

\* The two source files of the workspace /ws.
SrcA == <<"/ws", "/a", ".ts">>

SrcB == <<"/ws", "/b", ".ts">>

SourcePaths == {SrcA, SrcB}

FunctionDecl(name, line, exported, throws, children) ==
    [kind |-> "function", name |-> name, line |-> line, character |-> 0,
     exported |-> exported, throws |-> throws, brokenChildren |-> FALSE,
     children |-> children]

ClassDecl(name, line, exported, extendsName, methods, throws) ==
    [kind |-> "class", name |-> name, line |-> line, character |-> 0,
     exported |-> exported, extendsName |-> extendsName, methods |-> methods,
     throws |-> throws, brokenChildren |-> FALSE, children |-> <<>>]

ImportDecl(specifier, defaultName, namespace, named) ==
    [kind |-> "import", specifier |-> specifier, defaultName |-> defaultName,
     namespace |-> namespace, named |-> named, throws |-> "never",
     brokenChildren |-> FALSE, children |-> <<>>]

\* A statement that yields no fact, such as a block.
OtherNode(brokenChildren, children) ==
    [kind |-> "other", throws |-> "never", brokenChildren |-> brokenChildren,
     children |-> children]

SourceFileNode(statements) == OtherNode(FALSE, statements)

\* export function foo; a function whose visit throws, around a function
\* whose visit does not; an exported class whose visit throws after the class
\* fact; import {foo} from './a'; a block whose children cannot be listed.
Statements ==
    {FunctionDecl("foo", 0, TRUE, "never", <<>>),
     FunctionDecl("outer", 1, FALSE, "start",
                  <<FunctionDecl("inner", 2, FALSE, "never", <<>>)>>),
     ClassDecl("Bar", 3, TRUE, "", <<[name |-> "m", line |-> 4, character |-> 2]>>,
               "exports"),
     ImportDecl(<<".", "/a">>, "", "", <<"foo">>),
     OtherNode(TRUE, <<FunctionDecl("lost", 5, FALSE, "never", <<>>)>>)}

SourceFileOn(path, read, parsed, statements) ==
    [path |-> path, read |-> read, parsed |-> parsed, tree |-> SourceFileNode(statements)]

\* What findFiles may report for a source path, with trees of up to n statements.
FilesOn(path, n) ==
    {SourceFileOn(path, "fails", TRUE, <<>>), SourceFileOn(path, "ok", FALSE, <<>>)}
    \cup {SourceFileOn(path, "ok", TRUE, sts) : sts \in SeqUpTo(Statements, n)}

\* Files the filters drop: one under an excluded directory, one that is not
\* TypeScript or JavaScript.
FilteredFiles ==
    {SourceFileOn(<<"/ws", "/dist", "/a", ".js">>, "ok", TRUE,
                  <<FunctionDecl("foo", 0, TRUE, "never", <<>>)>>),
     SourceFileOn(<<"/ws", "/notes", ".md">>, "ok", TRUE, <<>>)}

FileListings ==
    {<<>>}
    \cup {<<f>> : f \in FilesOn(SrcA, MaxStatements) \cup FilteredFiles}
    \cup {<<f, g>> : f \in FilesOn(SrcA, MaxStatements) \cup FilteredFiles,
                     g \in FilesOn(SrcB, 1)}

\* The directories above a path.
DirsAbove(path) == {SubSeq(path, 1, k) : k \in 1..(LastSegment(path) - 1)}

\* The files of a listing and their directories.
DiskOf(files) ==
    UNION {{files[k].path} \cup DirsAbove(files[k].path) : k \in 1..Len(files)}

\* fault: what else fails in the call, the file search or ts.createProgram.
Workspaces ==
    {[folder |-> folder, fault |-> fault, files |-> files, disk |-> DiskOf(files)] :
        folder \in BOOLEAN, fault \in {"none", "search", "program"}, files \in FileListings}

NoWorkspace == [folder |-> FALSE, fault |-> "none", files |-> <<>>, disk |-> {}]

\* analyzer.analyzeWorkspace(workspacePath) or analyzer.analyzeWorkspace().
AnalyzeWorkspaceCall(given) ==
    /\ returned = NoReturn
    /\ returned' = AnalyzeWorkspace(workspace, given)
    /\ UNCHANGED <<phase, plan, diffResult, content, dirty, gd, ap, message, budget, held,
                   workspace, analysis, nodeMap, edgeMap, builds, search>>

----------------------------------------------------------------------------
(* extractImport called on its own: import declarations of b.ts and a.ts   *)
(* with relative and package specifiers, on disks that hold some of the    *)
(* candidates of './a'.                                                    *)

\* './a', './a.ts', './missing', '../ws/b' and 'react'.
Specifiers ==
    {<<".", "/a">>, <<".", "/a", ".ts">>, <<".", "/missing">>, <<"..", "/ws", "/b">>,
     <<"react">>}

\* Named, default and namespace imports, and a declaration without
\* specifier text.
ImportDecls ==
    {ImportDecl(specifier, "", "", <<"foo">>) : specifier \in Specifiers}
    \cup {ImportDecl(<<"react">>, "React", "", <<"useState">>),
          ImportDecl(<<".", "/a">>, "", "ns", <<>>),
          ImportDecl(<<>>, "", "", <<"foo">>)}

\* What may exist beside /ws: a.ts, a.js, a directory a and its index.ts, b.ts.
DiskEntries ==
    {SrcA, <<"/ws", "/a", ".js">>, <<"/ws", "/a">>, <<"/ws", "/a", "/index", ".ts">>, SrcB}

\* A file exists only in a directory that exists.
Disks ==
    {{<<"/ws">>} \cup d : d \in {e \in SUBSET DiskEntries :
                                  <<"/ws", "/a", "/index", ".ts">> \in e => <<"/ws", "/a">> \in e}}

DiskWorkspaces ==
    {[folder |-> TRUE, fault |-> "none", files |-> <<>>, disk |-> disk] : disk \in Disks}

Null == [kind |-> "null"]

\* this.extractImport(node, fp)
ExtractImportCall(node, fp) ==
    /\ returned = NoReturn
    /\ LET info == ExtractImport(node, fp, workspace.disk)
       IN  returned' = IF info = <<>> THEN Null ELSE info[1]
    /\ UNCHANGED <<phase, plan, diffResult, content, dirty, gd, ap, message, budget, held,
                   workspace, analysis, nodeMap, edgeMap, builds, search>>

----------------------------------------------------------------------------
(* DependencyExtractor called on its own: analysis results whose fact lists *)
(* may repeat a file, a function or a method, name a function and a class   *)
(* alike in two files, and hold facts of a file that is not in the list.    *)

\* Longest list of function or class facts in an analysis result.
MaxFacts == 2

\* Longest list of import facts in an analysis result.
MaxImports == 1

\* Calls of extractGraphData made on one extractor.
MaxBuilds == 2

FileInfos == [path : SourcePaths, content : {<<"text">>}]

FunctionInfoOf(name, filePath, line, isExported) ==
    [name |-> name, filePath |-> filePath, line |-> line, column |-> 1,
     isExported |-> isExported, isAsync |-> FALSE, parameters |-> <<>>]

\* foo declared twice in a.ts, and once more in b.ts.
FunctionInfos ==
    {FunctionInfoOf("foo", SrcA, 1, TRUE), FunctionInfoOf("foo", SrcA, 2, TRUE),
     FunctionInfoOf("foo", SrcB, 1, TRUE)}

MethodInfoOf(name, filePath, line) ==
    [name |-> name, filePath |-> filePath, line |-> line, column |-> 1]

\* A class named like the function, with a method declared twice, and a class
\* that extends it.
ClassInfos ==
    {[name |-> "foo", filePath |-> SrcB, line |-> 3, column |-> 1, isExported |-> TRUE,
      implements |-> <<>>, properties |-> <<>>,
      methods |-> <<MethodInfoOf("m", SrcB, 4), MethodInfoOf("m", SrcB, 5)>>],
     [name |-> "Sub", filePath |-> SrcA, line |-> 3, column |-> 1, isExported |-> FALSE,
      extends |-> "foo", implements |-> <<"Shape">>, properties |-> <<>>,
      methods |-> <<>>]}

ImportInfoOf(from, names) ==
    [from |-> from, imports |-> names, isDefault |-> FALSE, isNamespace |-> FALSE]

\* foo from a.ts, zed and Sub from a.ts, and foo from the package react.
ImportInfos ==
    {ImportInfoOf(SrcA, <<"foo">>), ImportInfoOf(SrcA, <<"zed", "Sub">>),
     ImportInfoOf(<<"react">>, <<"foo">>)}

\* The file list has one entry per file found.
FileInfoLists == {files \in SeqUpTo(FileInfos, Cardinality(SourcePaths)) : IsDistinct(files)}

AnalysisResults ==
    [files : FileInfoLists,
     functions : SeqUpTo(FunctionInfos, MaxFacts),
     classes : SeqUpTo(ClassInfos, MaxFacts),
     imports : SeqUpTo(ImportInfos, MaxImports),
     exports : {<<>>}]

\* A second class foo, in a.ts, that extends nothing.
ClassFooOfA ==
    [name |-> "foo", filePath |-> SrcA, line |-> 7, column |-> 1, isExported |-> TRUE,
     implements |-> <<>>, properties |-> <<>>, methods |-> <<>>]

\* Results without files and imports: functions named foo, the classes foo of
\* b.ts and of a.ts, and Sub, which extends foo and implements Shape.
InheritInputs ==
    [files : {<<>>},
     functions : SeqUpTo(FunctionInfos, MaxFacts),
     classes : SeqUpTo(ClassInfos \cup {ClassFooOfA}, MaxFacts + 1),
     imports : {<<>>},
     exports : {<<>>}]

\* a.ts exports function foo; b.ts holds import {foo} from './a'.
ExampleWorkspace ==
    LET files == <<SourceFileOn(SrcA, "ok", TRUE, <<FunctionDecl("foo", 0, TRUE, "never", <<>>)>>),
                   SourceFileOn(SrcB, "ok", TRUE, <<ImportDecl(<<".", "/a">>, "", "", <<"foo">>)>>)>>
    IN  [folder |-> TRUE, fault |-> "none", files |-> files, disk |-> DiskOf(files)]

\* What the analyzer hands to the extractor for it.
ExampleAnalysis == AnalyzeWorkspace(ExampleWorkspace, TRUE)

\* The results the extractor is called with.
ExtractorInputs == AnalysisResults \cup {ExampleAnalysis}

\* The results handed to an extractor that is used again: at most one fact
\* of each kind.
RebuildInputs ==
    [files : SeqUpTo(FileInfos, 1),
     functions : SeqUpTo(FunctionInfos, 1),
     classes : SeqUpTo(ClassInfos, 1),
     imports : SeqUpTo(ImportInfos, 1),
     exports : {<<>>}]

\* extractGraphData(analyzer, result): the function has no await, so the call
\* runs to its return in one step.
ExtractGraphDataCall(result) ==
    /\ builds < MaxBuilds
    /\ LET st == ExtractGraphData(result, nodeMap, edgeMap)
       IN  /\ nodeMap' = st.nodes
           /\ edgeMap' = st.edges
           /\ returned' = [nodes |-> st.nodes, edges |-> st.edges]
    /\ analysis' = result
    /\ builds' = builds + 1
    /\ UNCHANGED <<phase, plan, diffResult, content, dirty, gd, ap, message, budget, held,
                   workspace, search>>

----------------------------------------------------------------------------
(* SemanticSearchService                                                    *)
(*                                                                          *)
(* The text search service is the collaborator: a call of its search        *)
(* resolves with some list of result items tagged 'text', or rejects.       *)
(* search has one await after which it reads no field, so a call is one     *)
(* step.                                                                    *)

\* Longest list of calls made to the text fallback.
MaxSearches == 3

\* Longest result list the text search resolves with.
MaxResults == 2

Queries == {"", "foo", "bar"}

\* SemanticSearchOptions
SearchOptions == [query : Queries, includeExternalFolders : BOOLEAN]

\* Result items of the text search: one with line and column, one without.
TextItems ==
    {[id |-> "text-0", filePath |-> "a.ts", fileName |-> "a.ts", line |-> 1, column |-> 1,
      preview |-> "foo", source |-> "text"],
     [id |-> "text-1", filePath |-> "b.ts", fileName |-> "b.ts", preview |-> "foo bar",
      source |-> "text"]}

ErrTextSearch == "findFiles rejected"

\* What a call of the text search settles with.
TextOutcomes ==
    {[kind |-> "resolved", results |-> results] : results \in SeqUpTo(TextItems, MaxResults)}
    \cup {RejectedWith(ErrTextSearch)}

\* _runSemanticSearch: throws 'RuVector engine not yet implemented'.
RunSemanticSearch(opts) == RejectedWith("RuVector engine not yet implemented")

\* Mutant: the text results are handed on as they are.
RetagKeepsSource(r) == r

\* { ...r, source: 'semantic' }
Retag(r) == [r EXCEPT !.source = "semantic"]

\* The options the fallback is called with.
FallbackOptions(opts) ==
    [query |-> opts.query, isRegex |-> FALSE, isCaseSensitive |-> FALSE,
     isWholeWord |-> FALSE]

\* this._available = false
AvailableAfterInitialize == FALSE

\* initialize()
Initialize ==
    /\ search' = [search EXCEPT !.available = AvailableAfterInitialize]
    /\ returned' = [kind |-> "boolean", value |-> search'.available]
    /\ UNCHANGED <<phase, plan, diffResult, content, dirty, gd, ap, message, budget, held,
                   workspace, analysis, nodeMap, edgeMap, builds>>

\* Mutant: an empty query goes to the fallback like any other.
IsEmptyQueryNever(query) == FALSE

\* !opts.query
IsEmptyQuery(query) == query = ""

\* search(opts, token) with a text search that settles with `outcome`.
SemanticSearch(opts, outcome) ==
    /\ IF IsEmptyQuery(opts.query)
       THEN /\ returned' = [results |-> <<>>, didFallback |-> FALSE]
            /\ UNCHANGED search
       ELSE LET semantic == IF search.available
                            THEN RunSemanticSearch(opts)
                            ELSE RejectedWith("not tried")
            IN  IF search.available /\ semantic.kind = "resolved"
                THEN /\ returned' = [results |-> semantic.results, didFallback |-> FALSE]
                     /\ UNCHANGED search
                ELSE /\ Len(search.calls) < MaxSearches
                     /\ search' = [search EXCEPT
                                     !.calls = Append(search.calls, FallbackOptions(opts))]
                     /\ returned' =
                          IF outcome.kind = "resolved"
                          THEN [results |-> [k \in 1..Len(outcome.results) |->
                                                Retag(outcome.results[k])],
                                didFallback |-> TRUE]
                          ELSE outcome
    /\ UNCHANGED <<phase, plan, diffResult, content, dirty, gd, ap, message, budget, held,
                   workspace, analysis, nodeMap, edgeMap, builds>>

----------------------------------------------------------------------------
(* Specifications *)

InitialText(p) == <<p>>

InitAgent ==
    /\ phase = "idle"
    /\ plan = Undefined
    /\ diffResult = Undefined
    /\ content = [p \in Paths |-> InitialText(p)]
    /\ dirty = [p \in Paths |-> FALSE]
    /\ gd = GdIdle
    /\ ap = ApIdle
    /\ returned = NoReturn
    /\ message = <<>>
    /\ held = Undefined

\* No workspace analysed, a new extractor.
InitGraphIdle ==
    /\ workspace = NoWorkspace
    /\ analysis = Undefined
    /\ nodeMap = <<>>
    /\ edgeMap = <<>>
    /\ builds = 0

\* new SemanticSearchService(textSearch): `_available = false`, no call made.
InitSearch == search = [available |-> FALSE, calls |-> <<>>]

Init == InitAgent /\ InitGraphIdle /\ InitSearch /\ budget = 0

InitOverlap == InitAgent /\ InitGraphIdle /\ InitSearch /\ budget = MaxOverlapped

\* ApplyService alone.
NextApply ==
    \/ \E patches \in PatchLists, acc \in AcceptMaps : ApplyPatchesCall(patches, acc)
    \/ ApOpen
    \/ ApCommit
    \/ ApSave
    \/ ApplyPatchesReturn

SpecApply == Init /\ [][NextApply]_vars

\* DiffEngine alone.
NextDiff ==
    /\ diffResult = Undefined
    /\ \E beforeGraph \in BeforeGraphs, afterGraph \in AfterGraphs, patches \in DiffPatchLists :
            ComputeDiffCall(beforeGraph, afterGraph, patches)

SpecDiff == Init /\ [][NextDiff]_vars

\* TypeScriptAnalyzer alone, one call on some workspace.
InitAnalyze ==
    /\ InitAgent
    /\ InitSearch
    /\ budget = 0
    /\ workspace \in Workspaces
    /\ analysis = Undefined
    /\ nodeMap = <<>>
    /\ edgeMap = <<>>
    /\ builds = 0

NextAnalyze == \E given \in BOOLEAN : AnalyzeWorkspaceCall(given)

SpecAnalyze == InitAnalyze /\ [][NextAnalyze]_vars

\* extractImport alone, one call on some disk.
InitImport ==
    /\ InitAgent
    /\ InitSearch
    /\ budget = 0
    /\ workspace \in DiskWorkspaces
    /\ analysis = Undefined
    /\ nodeMap = <<>>
    /\ edgeMap = <<>>
    /\ builds = 0

NextImport == \E node \in ImportDecls, fp \in SourcePaths : ExtractImportCall(node, fp)

SpecImport == InitImport /\ [][NextImport]_vars

\* Plan, diff and apply with toggleAccept called for any workspace path.
NextToggle ==
    \/ \E req \in Requests, context \in Contexts : GeneratePlan(req, context)
    \/ GenerateDiffStart
    \/ GdRead
    \/ GdGraph
    \/ \E path \in Paths : ToggleAcceptAnyPath(path)
    \/ ApplyChangesStart
    \/ ApOpen
    \/ ApCommit
    \/ ApSave
    \/ ApplyChangesFinish

SpecToggle == Init /\ [][NextToggle]_vars

\* SemanticSearchService alone: any sequence of initialize and search calls.
NextSearch ==
    \/ Initialize
    \/ \E opts \in SearchOptions, outcome \in TextOutcomes : SemanticSearch(opts, outcome)

SpecSearch == Init /\ [][NextSearch]_vars

\* DependencyExtractor alone, one build on a new extractor.
NextGraph ==
    /\ builds = 0
    /\ \E result \in ExtractorInputs : ExtractGraphDataCall(result)

SpecGraph == Init /\ [][NextGraph]_vars

\* DependencyExtractor alone, one build from functions and classes that share
\* names across kinds and files.
NextInherit ==
    /\ builds = 0
    /\ \E result \in InheritInputs : ExtractGraphDataCall(result)

SpecInherit == Init /\ [][NextInherit]_vars

\* One DependencyExtractor used for up to MaxBuilds builds, as the extension's
\* getGraphData callback uses its single extractor.
NextRebuild == \E result \in RebuildInputs : ExtractGraphDataCall(result)

SpecRebuild == Init /\ [][NextRebuild]_vars

\* The agent workflow, calls issued one at a time.
Next ==
    \/ Reset
    \/ \E req \in Requests, context \in Contexts :
            GeneratePlan(req, context)
    \/ GenerateDiffStart
    \/ GdRead
    \/ GdGraph
    \/ ApplyChangesStart
    \/ ApOpen
    \/ ApCommit
    \/ ApSave
    \/ ApplyChangesFinish
    \/ \E path \in Paths : ToggleAccept(path)
    \/ AcceptAllTouched
    \/ AcceptNone

Spec == Init /\ [][Next]_vars

\* Every await settles and the event loop then resumes the suspended call:
\* the vscode promises (openTextDocument, applyEdit, save) and the graph-data
\* callback resolve or reject, they do not stay pending.
ApplySettles == WF_vars(ApOpen \/ ApCommit \/ ApSave \/ ApplyChangesFinish)

DiffSettles == WF_vars(GdRead \/ GdGraph)

\* One-at-a-time calls whose delegated apply settles.
SpecApplySettles == Spec /\ ApplySettles

\* One-at-a-time calls whose diff computation settles.
SpecDiffSettles == Spec /\ DiffSettles

\* The review cycle with a collaborator that keeps a session reference: plan,
\* diff, the accept helpers on the current session and on the kept one.
NextReview ==
    \/ Reset
    \/ \E req \in Requests, context \in Contexts : GeneratePlan(req, context)
    \/ GenerateDiffStart
    \/ GdRead
    \/ GdGraph
    \/ \E path \in Paths : ToggleAccept(path)
    \/ AcceptAllTouched
    \/ AcceptNone
    \/ Show
    \/ \E path \in Paths : ToggleHeld(path)
    \/ AcceptAllHeld
    \/ AcceptNoneHeld

SpecReview == Init /\ [][NextReview]_vars

\* The same calls, of which up to MaxOverlapped are issued while another call
\* is suspended (one activation of generateDiff and one of applyChanges).
SpecOverlap == InitOverlap /\ [][Next]_vars

----------------------------------------------------------------------------
(* Properties of ApplyService.applyPatches, checked under SpecApply at the *)
(* state in which the call has produced its result (ap.pc = "done").       *)

\* The accept map marks the path strictly true.
MarkedTrue(acc, path) == path \in DOMAIN acc /\ acc[path]

PathsMarkedTrue(patches, acc) ==
    FilePaths(SelectSeq(patches, LAMBDA p : MarkedTrue(acc, p.filePath)))

PathsNotMarkedTrue(patches, acc) ==
    FilePaths(SelectSeq(patches, LAMBDA p : ~MarkedTrue(acc, p.filePath)))

PatchTextOf(patches, path) ==
    LET k == CHOOSE k \in 1..Len(patches) : patches[k].filePath = path
    IN  patches[k].patchedContent

ApplyDone == ap.pc = "done"

\* C1: when at least one patch is accepted and the commit reports failure
\* (applyEdit returns false) or a step throws, the result has applied = [],
\* an error, and every patch's path, accepted or rejected, in skipped.
C1_FailureSkipsEveryFile ==
    (/\ ApplyDone
     /\ PathsMarkedTrue(ap.patches, ap.acc) # <<>>
     /\ ap.ended \in {"commitFalse", "thrown"})
    => /\ ap.result.applied = <<>>
       /\ ap.result.error # NoError
       /\ \A k \in 1..Len(ap.patches) :
             ap.patches[k].filePath \in Range(ap.result.skipped)

C1_Witness ==
    /\ ApplyDone
    /\ ap.ended = "commitFalse"
    /\ PathsMarkedTrue(ap.patches, ap.acc) # <<>>
    /\ PathsNotMarkedTrue(ap.patches, ap.acc) # <<>>

\* C2 (as claimed): in every outcome either the result has no error and every
\* accepted file holds its patched content, or the result has an error and
\* no document was changed by the call.
C2_NoPartialState ==
    ApplyDone =>
        \/ /\ ap.result.error = NoError
           /\ \A path \in Range(PathsMarkedTrue(ap.patches, ap.acc)) :
                 content[path] = PatchTextOf(ap.patches, path)
        \/ /\ ap.result.error # NoError
           /\ content = ap.pre

\* C3: on a successful commit the result has no error, applied is the paths
\* marked strictly true in patch order, skipped is all other paths (false or
\* absent), and every applied document holds its patch's patchedContent.
C3_SuccessResult ==
    (ApplyDone /\ ap.ended = "success")
    => /\ ap.result.error = NoError
       /\ ap.result.applied = PathsMarkedTrue(ap.patches, ap.acc)
       /\ ap.result.skipped = PathsNotMarkedTrue(ap.patches, ap.acc)
       /\ \A path \in Range(ap.result.applied) :
             content[path] = PatchTextOf(ap.patches, path)

C3_Witness ==
    /\ ApplyDone
    /\ ap.ended = "success"
    /\ ap.result.applied # <<>>
    /\ \E k \in 1..Len(ap.patches) : ap.patches[k].filePath \notin DOMAIN ap.acc
    /\ \E path \in Range(ap.result.applied) : ap.pre[path] # content[path]

\* C4: when no patch is marked strictly true the call returns applied = [],
\* skipped = every patch's path and the "no files accepted" error, and it has
\* opened no document, submitted no edit and written no content.
C4_NoneAccepted ==
    (ap.pc # "idle" /\ PathsMarkedTrue(ap.patches, ap.acc) = <<>>)
    => /\ ApplyDone
       /\ ap.result.applied = <<>>
       /\ ap.result.skipped = FilePaths(ap.patches)
       /\ ap.result.error = ErrNoneAccepted
       /\ ap.io = <<>>
       /\ content = ap.pre

C4_Witness ==
    /\ ApplyDone
    /\ Len(ap.patches) = Cardinality(Paths)
    /\ PathsMarkedTrue(ap.patches, ap.acc) = <<>>
    /\ \E path \in DOMAIN ap.acc : ap.acc[path] = FALSE

----------------------------------------------------------------------------
(* Properties of the AgentService phase machine *)

AllFalse(acc) == \A path \in DOMAIN acc : acc[path] = FALSE

\* C5: an applyChanges call that finds a diff session sets phase to applying
\* and, when the delegated apply has settled, ends with phase = idle whatever
\* the result; phase = applying only while the call is in flight, and, every
\* await settling, phase = applying always leads to phase = idle.
C5_ApplyEndsIdle ==
    /\ [][(ApplyChangesStart /\ diffResult # Undefined) => phase' = "applying"]_vars
    /\ [][ApplyChangesFinish => (phase' = "idle" /\ ap'.pc = "idle")]_vars
    /\ [](phase = "applying" =>
            /\ ap.pc # "idle" /\ ap.caller = "applyChanges"
            /\ ENABLED (ApOpen \/ ApCommit \/ ApSave \/ ApplyChangesFinish))
    /\ (phase = "applying") ~> (phase = "idle")

C5_Witness ==
    /\ phase = "idle"
    /\ ap.pc = "idle"
    /\ message = <<"Apply error", ErrCommitFalse>>

\* C6: a generateDiff call that finds a plan sets phase to diffing and ends
\* either with the new session stored, phase = reviewing and the session
\* returned, or (a step threw) with phase = idle and nothing returned;
\* phase = diffing only while the call is in flight, and, every await
\* settling, phase = diffing always leads to reviewing or idle.
C6_DiffEndsReviewingOrIdle ==
    /\ [][(GenerateDiffStart /\ plan # Undefined) => phase' = "diffing"]_vars
    /\ [][GdGraph =>
            /\ gd'.pc = "idle"
            /\ \/ /\ phase' = "reviewing"
                  /\ diffResult' # Undefined
                  /\ diffResult'.patches = gd.patches
                  /\ AllFalse(diffResult'.diffMeta.acceptedByFileId)
                  /\ returned' = ThisDiffResult
               \/ /\ phase' = "idle"
                  /\ returned' = Undefined]_vars
    /\ [](phase = "diffing" =>
            /\ gd.pc # "idle"
            /\ ENABLED (GdRead \/ GdGraph))
    /\ (phase = "diffing") ~> (phase \in {"reviewing", "idle"})

C6_Witness ==
    /\ phase = "idle"
    /\ gd.pc = "idle"
    /\ plan # Undefined
    /\ message = <<"Diff failed">>
    /\ returned = Undefined

\* C7: generateDiff with no plan and applyChanges with no diff session report
\* a message, return nothing and leave phase, plan and diff session as they
\* were, whatever the phase.
C7_GuardsChangeNothing ==
    /\ [][(GenerateDiffStart /\ plan = Undefined) =>
            /\ UNCHANGED <<phase, plan, diffResult, gd, ap>>
            /\ message' = <<"No plan available. Generate a plan first.">>
            /\ returned' = Undefined]_vars
    /\ [][(ApplyChangesStart /\ diffResult = Undefined) =>
            /\ UNCHANGED <<phase, plan, diffResult, gd, ap>>
            /\ message' = <<"No diff result available. Generate a diff first.">>
            /\ returned' = Undefined]_vars

C7_Witness ==
    /\ phase = "diffing"
    /\ diffResult = Undefined
    /\ message = <<"No diff result available. Generate a diff first.">>

\* C8: reset in any state yields phase = idle with plan and diff session
\* absent, and a reset of that state changes nothing.
C8_ResetClears ==
    /\ [][Reset => (phase' = "idle" /\ plan' = Undefined /\ diffResult' = Undefined)]_vars
    /\ [][(Reset /\ phase = "idle" /\ plan = Undefined /\ diffResult = Undefined)
            => UNCHANGED <<phase, plan, diffResult, content, dirty, gd, ap, message>>]_vars

\* A generateDiff call is suspended (it found a plan and set phase = diffing)
\* and a reset has cleared everything under it.
C8_Witness ==
    /\ gd.pc # "idle"
    /\ phase = "idle"
    /\ plan = Undefined
    /\ diffResult = Undefined

C10_PhaseOrder ==
    [][/\ (phase # "diffing" /\ phase' = "diffing") => phase = "planning"
       /\ (phase # "applying" /\ phase' = "applying") => phase = "reviewing"]_vars

----------------------------------------------------------------------------
(* Properties of the diff session and of the references kept to it *)

AcceptMapOf(session) == session.diffMeta.acceptedByFileId

HeldMutation == (\E path \in Paths : ToggleHeld(path)) \/ AcceptAllHeld \/ AcceptNoneHeld

\* C11: whatever the accept helpers did to the current session, a successful
\* generateDiff installs a session whose acceptedByFileId has one entry per
\* patch path, all false, in a map no kept reference denotes; and a later
\* write through a reference to the old session leaves the new one alone.
C11_NoStaleToggles ==
    /\ [][(GdGraph /\ returned' = ThisDiffResult)
            => /\ AllFalse(AcceptMapOf(diffResult'))
               /\ DOMAIN AcceptMapOf(diffResult') = Range(FilePaths(gd.patches))
               /\ held' # ThisDiffResult]_vars
    /\ [][(HeldMutation /\ held # ThisDiffResult) => UNCHANGED diffResult]_vars

\* The panel kept the old session, whose entry for a path is true, while the
\* session installed since has the same path at false.
C11_Witness ==
    /\ phase = "reviewing"
    /\ held # Undefined
    /\ held # ThisDiffResult
    /\ diffResult # Undefined
    /\ \E path \in DOMAIN AcceptMapOf(held) \cap DOMAIN AcceptMapOf(diffResult) :
            AcceptMapOf(held)[path] /\ ~AcceptMapOf(diffResult)[path]
    /\ AllFalse(AcceptMapOf(diffResult))

----------------------------------------------------------------------------
(* Properties of DiffEngine.computeDiff, checked under SpecDiff on the      *)
(* session a call has returned; the session carries the two snapshots and   *)
(* the patch list it was computed from.                                     *)

IdSet(items) == {items[k].id : k \in 1..Len(items)}

\* The item with the id, in a list whose ids are unique.
ItemOf(items, id) == CHOOSE x \in Range(items) : x.id = id

BeforeNodeIds == IdSet(diffResult.beforeGraph.nodes)

AfterNodeIds == IdSet(diffResult.afterGraph.nodes)

BeforeEdgeIds == IdSet(diffResult.beforeGraph.edges)

AfterEdgeIds == IdSet(diffResult.afterGraph.edges)

PatchPaths == {diffResult.patches[k].filePath : k \in 1..Len(diffResult.patches)}

\* C12: the keys of nodeStatusById are exactly the node ids of before and
\* after together, and the keys of edgeStatusByKey exactly the edge ids of
\* before and after together.
C12_UnionCompleteness ==
    diffResult # Undefined =>
        /\ DOMAIN diffResult.diffMeta.nodeStatusById = BeforeNodeIds \cup AfterNodeIds
        /\ DOMAIN diffResult.diffMeta.edgeStatusByKey = BeforeEdgeIds \cup AfterEdgeIds

\* Each snapshot has a node and an edge the other lacks.
C12_Witness ==
    /\ diffResult # Undefined
    /\ BeforeNodeIds \ AfterNodeIds # {}
    /\ AfterNodeIds \ BeforeNodeIds # {}
    /\ BeforeEdgeIds \ AfterEdgeIds # {}
    /\ AfterEdgeIds \ BeforeEdgeIds # {}
    /\ Cardinality(DOMAIN diffResult.diffMeta.nodeStatusById) = Cardinality(NodeIds)

\* The two copies of a node differ in label, type, line or column.
ShallowDiffer(before, after) ==
    <<before.label, before.type, before.line, before.column>>
        # <<after.label, after.type, after.line, after.column>>

NodeStatusOf(id) == diffResult.diffMeta.nodeStatusById[id]

\* The status the priority rule gives a node id: added, then removed, then
\* changed, then touched (the node's file is a patch path), then unchanged.
StatusByPriority(id) ==
    IF id \notin BeforeNodeIds THEN "added"
    ELSE IF id \notin AfterNodeIds THEN "removed"
    ELSE IF ShallowDiffer(ItemOf(diffResult.beforeGraph.nodes, id),
                          ItemOf(diffResult.afterGraph.nodes, id)) THEN "changed"
    ELSE IF ItemOf(diffResult.afterGraph.nodes, id).filePath \in PatchPaths THEN "touched"
    ELSE "unchanged"

\* C13: every node id has the one status the priority added > removed >
\* changed > touched > unchanged gives it; a node only in after, only in
\* before, or changed is never touched, whatever its file.
C13_StatusPriority ==
    diffResult # Undefined =>
        \A id \in BeforeNodeIds \cup AfterNodeIds : NodeStatusOf(id) = StatusByPriority(id)

\* A node only in after whose file is patched is added, next to an unchanged
\* node of the same file that is touched.
C13_Witness ==
    /\ diffResult # Undefined
    /\ \E id \in AfterNodeIds \ BeforeNodeIds :
            /\ ItemOf(diffResult.afterGraph.nodes, id).filePath \in PatchPaths
            /\ NodeStatusOf(id) = "added"
    /\ \E id \in AfterNodeIds \cap BeforeNodeIds : NodeStatusOf(id) = "touched"

EdgeStatusOf(id) == diffResult.diffMeta.edgeStatusByKey[id]

\* Ids of the nodes in both snapshots whose label, type, line or column differ.
ChangedIds ==
    {id \in BeforeNodeIds \cap AfterNodeIds :
        ShallowDiffer(ItemOf(diffResult.beforeGraph.nodes, id),
                      ItemOf(diffResult.afterGraph.nodes, id))}

\* The list holds exactly the ids of the set, each once.
ListsExactly(list, set) == Range(list) = set /\ IsDistinct(list)

C15_SelfDiff ==
    (diffResult # Undefined /\ diffResult.beforeGraph = diffResult.afterGraph) =>
        /\ diffResult.addedNodes = <<>>
        /\ diffResult.removedNodes = <<>>
        /\ diffResult.changedNodes = <<>>
        /\ diffResult.addedEdges = <<>>
        /\ diffResult.removedEdges = <<>>
        /\ \A id \in AfterEdgeIds : EdgeStatusOf(id) = "unchanged"
        /\ \A id \in AfterNodeIds :
              NodeStatusOf(id) =
                IF \E k \in 1..Len(diffResult.patches) :
                      diffResult.patches[k].filePath =
                        ItemOf(diffResult.afterGraph.nodes, id).filePath
                THEN "touched" ELSE "unchanged"

\* A self-diff with a patch for one of two files: one node touched, the
\* other unchanged, and an edge.
C15_Witness ==
    /\ diffResult # Undefined
    /\ diffResult.beforeGraph = diffResult.afterGraph
    /\ diffResult.patches # <<>>
    /\ AfterEdgeIds # {}
    /\ \E id \in AfterNodeIds : NodeStatusOf(id) = "touched"
    /\ \E id \in AfterNodeIds : NodeStatusOf(id) = "unchanged"

\* C16: the keys of the session's acceptedByFileId are exactly the distinct
\* file paths of the patches (a path patched twice is one key, a path with no
\* patch is no key) and every value is false.
C16_AcceptMapInitial ==
    diffResult # Undefined =>
        /\ DOMAIN AcceptMapOf(diffResult) = PatchPaths
        /\ \A path \in PatchPaths : AcceptMapOf(diffResult)[path] = FALSE

\* Two patches for one file, none for the other.
C16_Witness ==
    /\ diffResult # Undefined
    /\ Len(diffResult.patches) = 2
    /\ Cardinality(DOMAIN AcceptMapOf(diffResult)) = 1
    /\ Paths \ DOMAIN AcceptMapOf(diffResult) # {}

CurrentMutation == (\E path \in Paths : ToggleAccept(path)) \/ AcceptAllTouched \/ AcceptNone

----------------------------------------------------------------------------
(* Properties of the plan *)

ContextPaths(context) == {context[k].filePath : k \in 1..Len(context)}

\* Index of the first context item that names the path.
FirstIndex(context, path) ==
    CHOOSE k \in 1..Len(context) :
        /\ context[k].filePath = path
        /\ \A j \in 1..(k - 1) : context[j].filePath # path

\* The plan lists each distinct path of the context once, in order of first
\* occurrence, with one pending modify step "Modify {path}" per path; for an
\* empty context it has no file and one pending modify step that carries
\* the request and no filePath.
PlanMatches(pl, userRequest, context) ==
    /\ IsDistinct(pl.touchedFiles)
    /\ Range(pl.touchedFiles) = ContextPaths(context)
    /\ \A i, j \in 1..Len(pl.touchedFiles) :
          i < j => FirstIndex(context, pl.touchedFiles[i]) < FirstIndex(context, pl.touchedFiles[j])
    /\ \A k \in 1..Len(pl.planSteps) :
          pl.planSteps[k].type = "modify" /\ pl.planSteps[k].status = "pending"
    /\ IF context = <<>>
       THEN /\ pl.touchedFiles = <<>>
            /\ Len(pl.planSteps) = 1
            /\ pl.planSteps[1].description = <<userRequest>>
            /\ "filePath" \notin DOMAIN pl.planSteps[1]
       ELSE /\ Len(pl.planSteps) = Len(pl.touchedFiles)
            /\ \A k \in 1..Len(pl.planSteps) :
                  /\ "filePath" \in DOMAIN pl.planSteps[k]
                  /\ pl.planSteps[k].filePath = pl.touchedFiles[k]
                  /\ pl.planSteps[k].description = <<"Modify", pl.touchedFiles[k]>>

\* C18: generatePlan builds the plan from the distinct file paths of the
\* context items in first-occurrence order, one pending modify step per path,
\* or the single placeholder step when the context is empty.
C18_PlanFromContext ==
    [][\A req \in Requests, context \in Contexts :
            GeneratePlan(req, context) => PlanMatches(plan', req, context)]_vars

\* Two context items named one file: the plan lists it once.
C18_Witness ==
    /\ returned = ThisPlan
    /\ plan # Undefined
    /\ Len(plan.touchedSymbols) = 2
    /\ Len(plan.touchedFiles) = 1
    /\ Len(plan.planSteps) = 1

\* A step after the call, given the step before it and the apply result.
StepMarked(before, after, result) ==
    LET names == "filePath" \in DOMAIN before
    IN  /\ after = [before EXCEPT !.status = after.status]
        /\ (names /\ \E k \in 1..Len(result.applied) : result.applied[k] = before.filePath)
              => after.status = "applied"
        /\ (/\ names
            /\ \A k \in 1..Len(result.applied) : result.applied[k] # before.filePath
            /\ \E k \in 1..Len(result.skipped) : result.skipped[k] = before.filePath)
              => after.status = "rejected"
        /\ (\/ ~names
            \/ /\ \A k \in 1..Len(result.applied) : result.applied[k] # before.filePath
               /\ \A k \in 1..Len(result.skipped) : result.skipped[k] # before.filePath)
              => after.status = before.status

StepsMarked(before, after, result) ==
    /\ Len(after.planSteps) = Len(before.planSteps)
    /\ \A k \in 1..Len(before.planSteps) :
          StepMarked(before.planSteps[k], after.planSteps[k], result)
    /\ after = [before EXCEPT !.planSteps = after.planSteps]

\* C19: when applyChanges ends, every plan step whose file is in the result's
\* applied list is applied, every step whose file is in its skipped list is
\* rejected, and every other step (no filePath, or a file with no patch in
\* the session) has the status it had.
C19_StepsFollowResult ==
    [][ApplyChangesFinish =>
            IF plan = Undefined THEN plan' = Undefined
            ELSE StepsMarked(plan, plan', ap.result)]_vars

\* An apply of one accepted and one rejected file has just ended: one step
\* is applied, the other rejected.
C19_Witness ==
    /\ phase = "idle"
    /\ plan # Undefined
    /\ "applied" \in DOMAIN returned
    /\ returned.applied # <<>>
    /\ returned.skipped # <<>>
    /\ Len(plan.planSteps) = 2
    /\ \E k \in 1..2 : plan.planSteps[k].status = "applied"
    /\ \E k \in 1..2 : plan.planSteps[k].status = "rejected"

----------------------------------------------------------------------------
(* Properties of the accept helpers, checked under SpecReview on the map *)
(* of the agent's session before and after each call.                    *)

SameKeys(acc, after) == DOMAIN after = DOMAIN acc

\* One entry negated, every other entry as it was.
OneEntryNegated(acc, after, path) ==
    /\ SameKeys(acc, after)
    /\ after[path] = ~acc[path]
    /\ \A q \in DOMAIN acc \ {path} : after[q] = acc[q]

\* Every entry has the given value.
EveryEntry(after, value) == \A q \in DOMAIN after : after[q] = value

\* C20: toggleAccept of a path in the map negates that entry and leaves the
\* others, so a second toggle of the path restores the map; acceptAllTouched
\* makes every existing entry true and acceptNone makes every existing entry
\* false, with the same keys, and a second call of either changes nothing.
C20_AcceptHelpers ==
    [][/\ \A path \in Paths :
            ToggleAccept(path) =>
                /\ OneEntryNegated(AcceptMapOf(diffResult), AcceptMapOf(diffResult'), path)
                /\ ToggleAcceptMap(AcceptMapOf(diffResult'), path) = AcceptMapOf(diffResult)
       /\ AcceptAllTouched =>
                /\ SameKeys(AcceptMapOf(diffResult), AcceptMapOf(diffResult'))
                /\ EveryEntry(AcceptMapOf(diffResult'), TRUE)
                /\ AcceptAllTouchedMap(AcceptMapOf(diffResult')) = AcceptMapOf(diffResult')
       /\ AcceptNone =>
                /\ SameKeys(AcceptMapOf(diffResult), AcceptMapOf(diffResult'))
                /\ EveryEntry(AcceptMapOf(diffResult'), FALSE)
                /\ AcceptNoneMap(AcceptMapOf(diffResult')) = AcceptNoneMap(AcceptMapOf(diffResult))
                /\ AcceptNoneMap(AcceptMapOf(diffResult')) = AcceptMapOf(diffResult')]_vars

\* A session with two files, of which one has been toggled to accepted and
\* the other is not accepted.
C20_Witness ==
    /\ diffResult # Undefined
    /\ held = Undefined
    /\ NoCallInFlight
    /\ Cardinality(DOMAIN AcceptMapOf(diffResult)) = 2
    /\ \E p, q \in DOMAIN AcceptMapOf(diffResult) :
            AcceptMapOf(diffResult)[p] /\ ~AcceptMapOf(diffResult)[q]

----------------------------------------------------------------------------
(* Properties of DependencyExtractor.extractGraphData, checked under      *)
(* SpecGraph on the snapshot a call has returned and the analysis result  *)
(* it was given.                                                          *)

\* A build has returned.
Built == builds > 0

\* The nodes the facts of one class stand for: the class, then its methods.
ClassFacts(cls) ==
    <<NewClassNode(cls)>> \o [k \in 1..Len(cls.methods) |-> NewMethodNode(cls.methods[k], cls)]

RECURSIVE Flatten(_)
Flatten(lists) == IF lists = <<>> THEN <<>> ELSE Head(lists) \o Flatten(Tail(lists))

\* The node each fact stands for, in processing order: files, functions,
\* each class followed by its methods, then the file of each import.
NodeFacts(result) ==
    [k \in 1..Len(result.files) |-> NewFileNode(result.files[k].path)]
    \o [k \in 1..Len(result.functions) |-> NewFunctionNode(result.functions[k])]
    \o Flatten([k \in 1..Len(result.classes) |-> ClassFacts(result.classes[k])])
    \o [k \in 1..Len(result.imports) |-> NewFileNode(result.imports[k].from)]

\* The facts that are the first of their id.
FirstOfId(facts) ==
    SelectSeq([k \in 1..Len(facts) |-> [at |-> k, node |-> facts[k]]],
              LAMBDA e : \A j \in 1..(e.at - 1) : facts[j].id # e.node.id)

\* C21: a returned snapshot has no two nodes with one id, and its nodes are
\* the nodes of the facts that are the first of their id in processing order
\* (files, functions, classes with their methods), in that order; a later fact
\* with an id already seen changes nothing.
C21_FirstWriterWins ==
    Built =>
        /\ \A j, k \in 1..Len(returned.nodes) :
                j # k => returned.nodes[j].id # returned.nodes[k].id
        /\ LET first == FirstOfId(NodeFacts(analysis))
           IN  returned.nodes = [k \in 1..Len(first) |-> first[k].node]

\* foo was declared at line 1 and again at line 2 of a.ts: the snapshot holds
\* the node of line 1 only.
C21_Witness ==
    /\ Built
    /\ Len(analysis.functions) = 2
    /\ FunctionId(analysis.functions[1]) = FunctionId(analysis.functions[2])
    /\ analysis.functions[1].line # analysis.functions[2].line
    /\ \E k \in 1..Len(returned.nodes) : returned.nodes[k] = NewFunctionNode(analysis.functions[1])
    /\ \A k \in 1..Len(returned.nodes) : returned.nodes[k] # NewFunctionNode(analysis.functions[2])

\* The ids of the snapshot's nodes.
SnapshotNodeIds(snapshot) == {snapshot.nodes[k].id : k \in 1..Len(snapshot.nodes)}

\* The snapshot has an edge with the id, from source to target.
HasEdge(snapshot, id, source, target) ==
    \E k \in 1..Len(snapshot.edges) :
        /\ snapshot.edges[k].id = id
        /\ snapshot.edges[k].source = source
        /\ snapshot.edges[k].target = target

FooOfA == FunctionId(FunctionInfoOf("foo", SrcA, 1, TRUE))

\* C22: for a.ts exporting function foo and b.ts importing foo from './a', the
\* snapshot has exactly the nodes file:a.ts, function:a.ts:foo and file:b.ts,
\* an import edge import:file:b.ts->function:a.ts:foo from the importing file
\* b.ts to function:a.ts:foo labelled foo, and a contains edge
\* contains:file:a.ts->function:a.ts:foo from file:a.ts to function:a.ts:foo.
C22_ExampleGraph ==
    (Built /\ analysis = ExampleAnalysis) =>
        /\ SnapshotNodeIds(returned) = {FileId(SrcA), FooOfA, FileId(SrcB)}
        /\ \E k \in 1..Len(returned.edges) :
                /\ returned.edges[k].id = <<"import:">> \o FileId(SrcB) \o <<"->">> \o FooOfA
                /\ returned.edges[k].source = FileId(SrcB)
                /\ returned.edges[k].target = FooOfA
                /\ returned.edges[k].label = "foo"
        /\ HasEdge(returned, <<"contains:">> \o FileId(SrcA) \o <<"->">> \o FooOfA,
                   FileId(SrcA), FooOfA)

\* The snapshot a new extractor returns for the result.
FreshSnapshot(result) ==
    LET st == ExtractGraphData(result, <<>>, <<>>)
    IN  [nodes |-> st.nodes, edges |-> st.edges]

\* C23: whatever builds the extractor has made before, the snapshot it
\* returns for an analysis result is the snapshot a new extractor returns for
\* that result, nodes and edges in the same order; nothing of an earlier build
\* is in it.
C23_BuildIsPure ==
    Built => returned = FreshSnapshot(analysis)

\* The second build on one extractor has returned a snapshot with nodes and
\* edges.
C23_Witness ==
    /\ builds = 2
    /\ returned.nodes # <<>>
    /\ returned.edges # <<>>
    /\ nodeMap = returned.nodes

----------------------------------------------------------------------------
(* Properties of TypeScriptAnalyzer.analyzeWorkspace, checked under        *)
(* SpecAnalyze on what a call on the workspace has settled with.           *)

\* A call has settled.
Analyzed == returned # NoReturn

\* The call was rejected.
Aborted == Analyzed /\ "error" \in DOMAIN returned

RECURSIVE Reached(_)
\* The nodes of a tree that visit is called on, in order: a node, then what is
\* reached below each child, up to and including the first node whose
\* children cannot be listed.
Reached(node) ==
    LET Below(acc, child) ==
            IF acc # <<>> /\ acc[Len(acc)].brokenChildren THEN acc
            ELSE acc \o Reached(child)
    IN  IF node.brokenChildren THEN <<node>>
        ELSE FoldLeft(Below, <<node>>, node.children)

\* The files whose facts the result has to hold.
FilesKept(ws) ==
    SelectSeq(ws.files, LAMBDA f : ~ShouldExcludeFile(f.path)
                                   /\ IsTypeScriptOrJavaScriptFile(f.path)
                                   /\ f.read = "ok")

\* The nodes reached in the files kept, each with the path of its file.
NodesReached(ws) ==
    LET kept == FilesKept(ws)
        InFile(f) == IF f.parsed
                     THEN [k \in 1..Len(Reached(f.tree)) |->
                             [node |-> Reached(f.tree)[k], fp |-> f.path]]
                     ELSE <<>>
    IN  Flatten([k \in 1..Len(kept) |-> InFile(kept[k])])

\* The function facts of the nodes reached whose visit did not throw before
\* pushing them.
FunctionsExpected(ws) ==
    LET hits == SelectSeq(NodesReached(ws),
                          LAMBDA e : e.node.kind \in {"function", "variable"}
                                     /\ e.node.throws # "start")
    IN  [k \in 1..Len(hits) |->
            ExtractFunction(hits[k].node, hits[k].fp,
                            hits[k].node.kind = "function" /\ hits[k].node.exported)]

ClassesExpected(ws) ==
    LET hits == SelectSeq(NodesReached(ws),
                          LAMBDA e : e.node.kind = "class" /\ e.node.throws # "start")
    IN  [k \in 1..Len(hits) |-> ExtractClass(hits[k].node, hits[k].fp)]

ImportsExpected(ws) ==
    LET hits == SelectSeq(NodesReached(ws),
                          LAMBDA e : e.node.kind = "import" /\ e.node.throws # "start"
                                     /\ e.node.specifier # <<>>)
    IN  [k \in 1..Len(hits) |-> ExtractImport(hits[k].node, hits[k].fp, ws.disk)[1]]

ExportsExpected(ws) ==
    LET hits == SelectSeq(NodesReached(ws),
                          LAMBDA e : e.node.kind \in {"function", "class"}
                                     /\ e.node.throws = "never" /\ e.node.exported)
    IN  [k \in 1..Len(hits) |-> ExportOf(hits[k].node, hits[k].fp)]

\* The result holds every file kept and the facts of every node reached.
IsolatedResult(ws, result) ==
    /\ [k \in 1..Len(result.files) |-> result.files[k].path]
         = [k \in 1..Len(FilesKept(ws)) |-> FilesKept(ws)[k].path]
    /\ result.functions = FunctionsExpected(ws)
    /\ result.classes = ClassesExpected(ws)
    /\ result.imports = ImportsExpected(ws)
    /\ result.exports = ExportsExpected(ws)

Candidates(from, fp) ==
    LET resolved == ResolveAgainst(Dirname(fp), from)
    IN  <<resolved>> \o [k \in 1..Len(ProbedSuffixes) |-> resolved \o ProbedSuffixes[k]]

\* The recorded module path the claim describes.
RecordedAsClaimed(from, fp, disk, recorded) ==
    LET existing == {k \in 1..Len(Candidates(from, fp)) : Candidates(from, fp)[k] \in disk}
    IN  IF ~StartsWithDot(from) \/ existing = {}
        THEN recorded = from
        ELSE recorded = Candidates(from, fp)[CHOOSE k \in existing : \A j \in existing : k <= j]

\* C25: the module path of an import fact is the specifier's own text when
\* the specifier is not relative, and when it is relative and neither the
\* resolved path nor any of the six probed suffixes exists; otherwise it is
\* the first existing candidate, the resolved path first.
C25_OpaqueSpecifiersKept ==
    [][\A node \in ImportDecls, fp \in SourcePaths :
            (ExtractImportCall(node, fp) /\ returned' # Null)
                => RecordedAsClaimed(node.specifier, fp, workspace.disk, returned'.from)]_vars

----------------------------------------------------------------------------
(* Properties of AgentService.generateDiff's read loop *)

\* The touched files the call did not warn about, in plan order.
ReadableFiles(g) == SelectSeq(g.files, LAMBDA fp : fp \notin Range(g.unread))

\* C26: a read failure for one touched file leaves only that file out: a
\* failed read keeps the call going in phase diffing, and when the call
\* stores its session the patches are the touched files that could be read,
\* in plan order, each with patched content different from the original,
\* the accept map has those files, and the phase is reviewing, also when
\* no file could be read.
C26_ReadFailureLeavesOneOut ==
    [][/\ GdRead => (gd'.pc # "idle" /\ phase' = "diffing" /\ returned' = NoReturn)
       /\ (GdGraph /\ returned' = ThisDiffResult)
            => /\ FilePaths(diffResult'.patches) = ReadableFiles(gd)
               /\ \A k \in 1..Len(diffResult'.patches) :
                    diffResult'.patches[k].patchedContent
                        # diffResult'.patches[k].originalContent
               /\ DOMAIN diffResult'.diffMeta.acceptedByFileId = Range(ReadableFiles(gd))
               /\ phase' = "reviewing"]_vars

\* A session stored after the first of two touched files failed to read, and
\* one stored after every touched file failed.
C26_Witness ==
    /\ returned = ThisDiffResult
    /\ phase = "reviewing"
    /\ plan # Undefined
    /\ \/ /\ Len(plan.touchedFiles) = 2
          /\ FilePaths(diffResult.patches) = <<plan.touchedFiles[2]>>
       \/ /\ Len(plan.touchedFiles) > 0
          /\ diffResult.patches = <<>>
          /\ DOMAIN diffResult.diffMeta.acceptedByFileId = {}

----------------------------------------------------------------------------
(* Properties of the session's accept map as applyChanges uses it *)

\* C27: the accept state set during review is what apply uses: applyChanges
\* hands applyPatches the session's patches and the session's accept map as
\* the review calls left it, and a successful applyChanges returns as
\* applied exactly the patches whose entry was true at that moment, in patch
\* order, and as skipped the rest.
C27_ApplyUsesReviewState ==
    [][/\ (ApplyChangesStart /\ diffResult # Undefined)
            => /\ ap'.patches = diffResult.patches
               /\ ap'.acc = diffResult.diffMeta.acceptedByFileId
       /\ (ApplyChangesFinish /\ ap.ended = "success")
            => /\ returned'.error = NoError
               /\ returned'.applied = PathsMarkedTrue(ap.patches, ap.acc)
               /\ returned'.skipped = PathsNotMarkedTrue(ap.patches, ap.acc)
               /\ ap.acc = diffResult.diffMeta.acceptedByFileId]_vars

\* A successful apply has just ended on a session in which review accepted
\* one file and left the other rejected.
C27_Witness ==
    /\ "applied" \in DOMAIN returned
    /\ returned.error = NoError
    /\ diffResult # Undefined
    /\ \E fp, fq \in DOMAIN diffResult.diffMeta.acceptedByFileId :
          /\ diffResult.diffMeta.acceptedByFileId[fp]
          /\ ~diffResult.diffMeta.acceptedByFileId[fq]
          /\ returned.applied = <<fp>>
          /\ returned.skipped = <<fq>>

----------------------------------------------------------------------------
(* Properties of the stored diff session across calls *)

\* The step is part of a generateDiff call that stores no session: the
\* rejection for lack of a plan, the reads, and the failure after them.
DiffStepWithoutSession ==
    \/ GenerateDiffStart
    \/ GdRead
    \/ GdGraph /\ returned' = Undefined

\* The step is part of an applyChanges call, whatever its outcome.
ApplyStep ==
    \/ ApplyChangesStart
    \/ ApOpen
    \/ ApCommit
    \/ ApSave
    \/ ApplyChangesFinish

\* The session is the one stored before, with another accept map.
SameSessionReviewed ==
    /\ diffResult # Undefined
    /\ diffResult' # Undefined
    /\ diffResult' = [diffResult EXCEPT !.diffMeta.acceptedByFileId =
                            diffResult'.diffMeta.acceptedByFileId]

\* C28: the stored diff session is replaced only by a generateDiff that
\* succeeds and cleared only by reset: generatePlan, every step of
\* applyChanges, a generateDiff rejected for lack of a plan and a
\* generateDiff that fails leave the session, its patches and its accept map
\* as they were, and an applyChanges that follows takes that session.  (The
\* review calls write into the accept map of the session that is stored.)
C28_SessionStays ==
    [][/\ diffResult' # diffResult
            => /\ ~(\E req \in Requests, context \in Contexts : GeneratePlan(req, context))
               /\ ~ApplyStep
               /\ ~DiffStepWithoutSession
               /\ \/ GdGraph /\ returned' = ThisDiffResult
                  \/ Reset /\ diffResult' = Undefined
                  \/ SameSessionReviewed
       /\ (ApplyChangesStart /\ diffResult # Undefined)
            => ap'.patches = diffResult.patches]_vars

\* A generateDiff has just failed while an earlier session was stored: the
\* session is still there, with a file accepted in review.
C28_Witness ==
    /\ message = <<"Diff failed">>
    /\ returned = Undefined
    /\ phase = "idle"
    /\ diffResult # Undefined
    /\ diffResult.patches # <<>>
    /\ \E fp \in DOMAIN diffResult.diffMeta.acceptedByFileId :
          diffResult.diffMeta.acceptedByFileId[fp]

----------------------------------------------------------------------------
(* Properties of the builder's import and containment edges *)

SymbolTypes == {"function", "class"}

\* The snapshot's node at position k is a function or class labelled with
\* the name, and no node before it is.
FirstNamed(nodes, k, name) ==
    /\ nodes[k].label = <<name>>
    /\ nodes[k].type \in SymbolTypes
    /\ \A j \in 1..(k - 1) : ~(nodes[j].label = <<name>> /\ nodes[j].type \in SymbolTypes)

\* The edge for an imported name and the node it resolves to.
ImportEdgeTo(imp, name, target) ==
    [id |-> ImportEdgeId(FileId(imp.from), target.id),
     source |-> FileId(imp.from),
     target |-> target.id,
     type |-> "import",
     label |-> name]

\* The import edges the imports call for, given the snapshot's nodes.
ImportEdgesExpected(result, nodes) ==
    UNION {UNION {{ImportEdgeTo(result.imports[i], result.imports[i].imports[n], nodes[k]) :
                        k \in {j \in 1..Len(nodes) :
                                  FirstNamed(nodes, j, result.imports[i].imports[n])}} :
                    n \in 1..Len(result.imports[i].imports)} :
            i \in 1..Len(result.imports)}

EdgesOfType(snapshot, type) ==
    SelectSeq(snapshot.edges, LAMBDA e : e.type = type)

HasParentIn(snapshot, node) ==
    "parentId" \in DOMAIN node /\ node.parentId \in SnapshotNodeIds(snapshot)

\* The positions of the snapshot's containment edges that end at the node.
ContainsEdgesTo(snapshot, node) ==
    {k \in 1..Len(snapshot.edges) :
        /\ snapshot.edges[k].label = "contains"
        /\ snapshot.edges[k].target = node.id}

\* C30: in a built snapshot a node whose parentId is the id of a node of the
\* snapshot has exactly one containment edge, from that parent to it, and a
\* node without parentId, or with a parentId that is no node's id, has
\* none; there is no other containment edge.
C30_OneContainsEdgePerChild ==
    Built =>
        /\ \A n \in Range(returned.nodes) :
              IF HasParentIn(returned, n)
              THEN /\ Cardinality(ContainsEdgesTo(returned, n)) = 1
                   /\ \A k \in ContainsEdgesTo(returned, n) :
                         /\ returned.edges[k].source = n.parentId
                         /\ returned.edges[k].type = "reference"
                         /\ returned.edges[k].id = ContainsEdgeId(n.parentId, n.id)
              ELSE ContainsEdgesTo(returned, n) = {}
        /\ \A e \in Range(EdgesOfType(returned, "reference")) :
              /\ e.label = "contains"
              /\ e.target \in SnapshotNodeIds(returned)

\* A snapshot with a function whose file is no node (no edge to it) and a
\* method whose class is a node (one edge to it).
C30_Witness ==
    /\ Built
    /\ \E n \in Range(returned.nodes) :
          /\ n.type = "function"
          /\ ~HasParentIn(returned, n)
          /\ ContainsEdgesTo(returned, n) = {}
    /\ \E m \in Range(returned.nodes) :
          /\ m.type = "method"
          /\ HasParentIn(returned, m)
          /\ Cardinality(ContainsEdgesTo(returned, m)) = 1

----------------------------------------------------------------------------
(* Properties of the builder's inheritance edges, checked under SpecInherit *)

\* The node at position k has the label and the kind, and no node before it has.
FirstOfKind(nodes, k, name, kind) ==
    /\ nodes[k].label = <<name>>
    /\ nodes[k].type = kind
    /\ \A j \in 1..(k - 1) : ~(nodes[j].label = <<name>> /\ nodes[j].type = kind)

\* The classes of the result that name a superclass.
Subclasses(result) ==
    {cls \in Range(result.classes) : "extends" \in DOMAIN cls}

\* The extends edges the classes call for, given the snapshot's nodes.
ExtendsEdgesExpected(result, nodes) ==
    UNION {{[id |-> ExtendsEdgeId(ClassId(cls), nodes[k].id),
             source |-> ClassId(cls),
             target |-> nodes[k].id,
             type |-> "extends",
             label |-> "extends"] :
                k \in {j \in 1..Len(nodes) : FirstOfKind(nodes, j, cls.extends, "class")}} :
            cls \in Subclasses(result)}

\* The implements edges the classes call for, given the snapshot's nodes.
ImplementsEdgesExpected(result, nodes) ==
    UNION {UNION {{[id |-> ImplementsEdgeId(ClassId(cls), nodes[k].id),
                    source |-> ClassId(cls),
                    target |-> nodes[k].id,
                    type |-> "implements",
                    label |-> "implements"] :
                        k \in {j \in 1..Len(nodes) :
                                  FirstOfKind(nodes, j, cls.implements[n], "interface")}} :
                    n \in 1..Len(cls.implements)} :
            cls \in Range(result.classes)}

\* C31: the extends edges of a snapshot are, for each class that names a
\* superclass, one edge from the class to the first node in insertion order
\* that is of kind class and labelled with the superclass name, and none
\* when there is no such node; the implements edges are, for each interface
\* a class names, one edge to the first node of kind interface with that
\* label, and none when there is none; the build returns its snapshot in
\* every case.
C31_InheritanceEdges ==
    Built =>
        /\ Range(EdgesOfType(returned, "extends")) = ExtendsEdgesExpected(analysis, returned.nodes)
        /\ IsDistinct(Ids(EdgesOfType(returned, "extends")))
        /\ Range(EdgesOfType(returned, "implements"))
              = ImplementsEdgesExpected(analysis, returned.nodes)
        /\ IsDistinct(Ids(EdgesOfType(returned, "implements")))

\* Sub extends foo where a function foo was inserted before the classes foo of
\* b.ts and a.ts: the edge ends at the class of b.ts, the first class foo.
C31_Witness ==
    /\ Built
    /\ analysis.functions # <<>>
    /\ Len(analysis.classes) = 3
    /\ analysis.classes[1].name = "Sub"
    /\ analysis.classes[2].filePath = SrcB
    /\ analysis.classes[3] = ClassFooOfA
    /\ \E e \in Range(EdgesOfType(returned, "extends")) :
          /\ e.source = ClassId(analysis.classes[1])
          /\ e.target = ClassId(analysis.classes[2])

----------------------------------------------------------------------------
(* Properties of SemanticSearchService, checked under SpecSearch *)

\* The item is the text item with nothing but the source tag changed.
SameButSemantic(item, textItem) ==
    /\ DOMAIN item = DOMAIN textItem
    /\ \A field \in DOMAIN textItem \ {"source"} : item[field] = textItem[field]
    /\ item.source = "semantic"

\* The call reached the text search with the query, and nothing else did.
CalledTextSearchWith(query) ==
    /\ Len(search'.calls) = Len(search.calls) + 1
    /\ SubSeq(search'.calls, 1, Len(search.calls)) = search.calls
    /\ search'.calls[Len(search'.calls)].query = query
    /\ ~search'.calls[Len(search'.calls)].isRegex

\* C32: whatever initialize and search calls came before, a search with a
\* non-empty query calls the text search with that query and, when the text
\* search resolves, returns didFallback = true and the text results one for
\* one, in order, with only the source tag changed to 'semantic' (when it
\* rejects, the search rejects with its error); a search with an empty query
\* returns no results with didFallback = false and calls nothing; initialize
\* leaves the engine unavailable.
C32_SemanticDefersToText ==
    [][/\ \A opts \in SearchOptions, outcome \in TextOutcomes :
            SemanticSearch(opts, outcome) =>
                IF opts.query = ""
                THEN /\ returned' = [results |-> <<>>, didFallback |-> FALSE]
                     /\ search'.calls = search.calls
                ELSE /\ CalledTextSearchWith(opts.query)
                     /\ IF outcome.kind = "resolved"
                        THEN /\ returned'.didFallback
                             /\ Len(returned'.results) = Len(outcome.results)
                             /\ \A k \in 1..Len(outcome.results) :
                                   SameButSemantic(returned'.results[k], outcome.results[k])
                        ELSE returned' = outcome
       /\ Initialize => (~search'.available /\ search'.calls = search.calls)]_vars

\* A third search has just returned two retagged text results.
C32_Witness ==
    /\ Len(search.calls) = MaxSearches
    /\ "didFallback" \in DOMAIN returned
    /\ returned.didFallback
    /\ Len(returned.results) = 2
    /\ returned.results[1].id # returned.results[2].id
    /\ \A k \in 1..2 : returned.results[k].source = "semantic"

----------------------------------------------------------------------------
(* Properties of the orchestrator under overlapping calls, checked under *)
(* SpecOverlap                                                           *)

\* C33: in every reachable state, states reached by calls issued while
\* another call is suspended included, phase reviewing or applying implies
\* that a diff session is stored.
C33_ReviewingHasSession ==
    phase \in {"reviewing", "applying"} => diffResult # Undefined

\* A reset came while generateDiff was suspended and the call then stored
\* its session: reviewing with a session and without a plan.
C33_Witness ==
    /\ phase = "reviewing"
    /\ diffResult # Undefined
    /\ plan = Undefined
    /\ NoCallInFlight

\* What reset leaves: no plan, no session, phase idle.
ResetHolds == plan = Undefined /\ diffResult = Undefined /\ phase = "idle"

\* A suspended call is resumed; no call is issued.
ResumeStep == GdRead \/ GdGraph \/ ApOpen \/ ApCommit \/ ApSave \/ ApplyChangesFinish

\* C34: reset is final for work in flight: once reset has run while a
\* generateDiff or applyChanges call is suspended (no plan, no session, phase
\* idle, a call in flight), the resumptions of the suspended calls leave
\* phase idle and plan and session absent, so that is the state when every
\* call has settled and no new call was made.
C34_ResetIsFinal ==
    [][(ResetHolds /\ ~NoCallInFlight /\ ResumeStep) => ResetHolds']_vars

\* The documents whose text differs from what it was when applyPatches was called.
FilesWritten == {path \in Paths : content[path] # ap.pre[path]}

\* C35: the accepted/rejected partition of an applyPatches call is the one
\* of the accept map's values at the moment of the call (ap.acc), whatever
\* toggleAccept, acceptAllTouched and acceptNone did while the call was
\* suspended: the files written are among the paths marked true then, on
\* success each of those holds its patched text, and the applied and skipped
\* lists of every outcome are made of that partition.
C35_PartitionFixedAtCall ==
    ApplyDone =>
        LET marked == PathsMarkedTrue(ap.patches, ap.acc)
            unmarked == PathsNotMarkedTrue(ap.patches, ap.acc)
        IN  /\ FilesWritten \subseteq Range(marked)
            /\ ap.ended = "success" =>
                  /\ ap.result.applied = marked
                  /\ ap.result.skipped = unmarked
                  /\ \A path \in Range(marked) : content[path] = PatchTextOf(ap.patches, path)
            /\ ap.ended = "noneAccepted" =>
                  (marked = <<>> /\ ap.result.applied = <<>> /\ ap.result.skipped = unmarked)
            /\ ap.ended = "commitFalse" =>
                  (ap.result.applied = <<>> /\ ap.result.skipped = marked \o unmarked)
            /\ ap.ended = "thrown" =>
                  (ap.result.applied = <<>> /\ ap.result.skipped = FilePaths(ap.patches))

\* A successful applyChanges wrote a file whose entry a review call had set
\* to false while the call was suspended.
C35_Witness ==
    /\ ApplyDone
    /\ ap.ended = "success"
    /\ ap.caller = "applyChanges"
    /\ diffResult # Undefined
    /\ diffResult.patches = ap.patches
    /\ \E path \in FilesWritten :
          /\ path \in Range(ap.result.applied)
          /\ path \in DOMAIN diffResult.diffMeta.acceptedByFileId
          /\ ~diffResult.diffMeta.acceptedByFileId[path]

----------------------------------------------------------------------------
(* Properties of toggleAccept on a path without entry, checked under *)
(* SpecToggle                                                        *)

\* The keys of the accept map that are no patch's path.
KeysWithoutPatch(patches, acc) == DOMAIN acc \ Range(FilePaths(patches))

\* C36: toggleAccept for a path that has no entry in the session's accept
\* map creates the entry with value true and leaves the other entries, so
\* the map's keys can go beyond the session's patch paths; applyPatches
\* lists only paths that have a patch, so such a path is neither applied nor
\* skipped, and its document is not written.
C36_ToggleCreatesEntry ==
    /\ [][\A path \in Paths :
            (ToggleAcceptAnyPath(path)
                /\ path \notin DOMAIN diffResult.diffMeta.acceptedByFileId)
            => /\ DOMAIN diffResult'.diffMeta.acceptedByFileId
                    = DOMAIN diffResult.diffMeta.acceptedByFileId \cup {path}
               /\ diffResult'.diffMeta.acceptedByFileId[path] = TRUE
               /\ \A q \in DOMAIN diffResult.diffMeta.acceptedByFileId :
                     diffResult'.diffMeta.acceptedByFileId[q]
                        = diffResult.diffMeta.acceptedByFileId[q]
               /\ diffResult'.patches = diffResult.patches]_vars
    /\ [](ApplyDone =>
            \A path \in KeysWithoutPatch(ap.patches, ap.acc) :
                /\ path \notin Range(ap.result.applied)
                /\ path \notin Range(ap.result.skipped)
                /\ content[path] = ap.pre[path])

\* An apply has ended on a session whose map says true for a path that has
\* no patch, next to a patch that was applied.
C36_Witness ==
    /\ ApplyDone
    /\ ap.caller = "applyChanges"
    /\ ap.result.applied # <<>>
    /\ \E path \in KeysWithoutPatch(ap.patches, ap.acc) :
          /\ ap.acc[path]
          /\ path \notin Range(ap.result.applied) \cup Range(ap.result.skipped)

----------------------------------------------------------------------------
(* Properties of every built snapshot, checked under SpecGraph *)

\* C37: every edge of a built snapshot starts and ends at a node of the same
\* snapshot, whatever the analysis result: an import of a package or of a
\* module that is no analysed file has its file node created when the
\* import is processed.
C37_NoDanglingEdges ==
    Built =>
        \A e \in Range(returned.edges) :
            /\ e.source \in SnapshotNodeIds(returned)
            /\ e.target \in SnapshotNodeIds(returned)

\* A snapshot with an import edge from the file node of the package react,
\* which is no analysed file, with an extends edge and a contains edge.
C37_Witness ==
    /\ Built
    /\ \A k \in 1..Len(analysis.files) : analysis.files[k].path # <<"react">>
    /\ \E e \in Range(EdgesOfType(returned, "import")) : e.source = FileId(<<"react">>)
    /\ EdgesOfType(returned, "extends") # <<>>
    /\ EdgesOfType(returned, "reference") # <<>>

NodeKinds == {"file", "function", "class", "method"}

\* C38: a built snapshot holds nodes of kind file, function, class and
\* method only, and, no node of kind interface being there to find, no
\* implements edge, whatever interfaces the classes name.
C38_NoInterfaceNoImplements ==
    Built =>
        /\ \A n \in Range(returned.nodes) : n.type \in NodeKinds
        /\ EdgesOfType(returned, "implements") = <<>>
        /\ \A e \in Range(returned.edges) : e.type \in {"import", "extends", "reference"}

\* A snapshot with a node of each kind, built from a class that names the
\* interface Shape.
C38_Witness ==
    /\ Built
    /\ \E cls \in Range(analysis.classes) : cls.implements # <<>>
    /\ {n.type : n \in Range(returned.nodes)} = NodeKinds
    /\ EdgesOfType(returned, "implements") = <<>>

=============================================================================
